---- MODULE Spec2Model ----
(***************************************************************************)
(* Model of the hybrid retrieval and conversational routing engine of      *)
(* rag-chatbot-api: the session memory (src/src/chat_memory.py), the       *)
(* content fingerprint and the score fusion (src/src/vector_store_manager  *)
(* .py, src/src/qa_system.py).                                             *)
(*                                                                         *)
(* Time is a discrete clock `now`, counted in hours since midnight of day  *)
(* 0.  A call made by a single thread reads the clock at one instant (the  *)
(* clock is coarser than the run time of a call).                          *)
(***************************************************************************)
EXTENDS Integers, Sequences, FiniteSets, TLC

VARIABLES
    sessions,   \* ChatMemory.sessions: session id -> [history, last_access]
    disk,       \* contents of ChatMemory.storage_file
    now,        \* the wall clock read by datetime.now()
    ret,        \* the outcome of the last call that writes: [op, raised, deleted, cut]
    wfail,      \* the number of snapshot writes that have failed
    max_history_length,  \* ChatMemory.max_history_length
    thr,        \* the request threads inside add_message: thread -> its position and locals
    base,       \* the session map when the concurrent requests arrived
    ta, tb,     \* two passage texts
    fp,         \* the fingerprints computed for ta and tb
    raw,        \* the hits of the vector index for the query, nearest first
    bm,         \* the BM25 score of every indexed passage for the query
    fused,      \* the result of the last fusion
    vsm,        \* the sparse index of the retrieval manager: all_documents, bm25_index
    job,        \* the threads at work on the sparse index: thread -> position and locals
    cls,        \* the last classification: its inputs and its result
    ask         \* the last call of ask_question: its inputs, its calls and its result

memVars == <<sessions, disk, now, ret, wfail, max_history_length>>
concVars == <<thr, base>>
fpVars == <<ta, tb, fp>>
fuseVars == <<raw, bm, fused>>
indexVars == <<vsm, job>>
qaVars == <<cls, ask>>
vars == <<memVars, concVars, fpVars, fuseVars, indexVars, qaVars>>

----------------------------------------------------------------------------
(* Bounds of the model *)

MaxTime == 2            \* the clock stops this many hours after the start
MaxCap == 5             \* max_history_length ranges over 1..MaxCap in SpecCap
MaxFails == 1           \* at most this many snapshot writes fail

SessionIds == {"s1", "s2"}
Roles == {"user", "assistant"}
Contents == {"hi"}
SpecRoles == {"user"}   \* the roles of the messages added in Spec
SmallCaps == {1, 2}     \* the values of max_history_length in Spec
MaxMessagesArgs == {0, 1}   \* the values of max_messages; 0 stands for None too

(* Program constants *)

StartHour == 23         \* the hour at which the process first starts
ttl_hours == 1          \* ChatMemory.ttl_hours
KeepPairs == 4          \* the literal 4 in keep_count = min(max_history_length, 4)

TTL == ttl_hours        \* timedelta(hours=self.ttl_hours), in hours

----------------------------------------------------------------------------
(* Python helpers *)

Min(a, b) == IF a < b THEN a ELSE b

\* seq[-k:] for k >= 0: the last k elements; -0 is 0, so seq[-0:] is the whole list
SliceLast(seq, k) ==
    IF k = 0 \/ k >= Len(seq) THEN seq
    ELSE SubSeq(seq, Len(seq) - k + 1, Len(seq))

\* a format that leaves the date out
isoformatTimeOnly(t) == [date |-> 0, hour |-> t % 24]

\* datetime.isoformat(): the string "<date>T<hour>", as its two fields
isoformat(t) == [date |-> t \div 24, hour |-> t % 24]

\* datetime.fromisoformat()
fromisoformat(s) == s.date * 24 + s.hour

\* the dict d with key k bound to v
DictSet(d, k, v) == [x \in (DOMAIN d) \cup {k} |-> IF x = k THEN v ELSE d[x]]

\* the dict d without the keys in ks
DictDel(d, ks) == [x \in (DOMAIN d) \ ks |-> d[x]]

EmptyDict == [x \in {} |-> 0]

----------------------------------------------------------------------------
(* The durable snapshot [kind, data]: kind is "absent" (no file),          *)
(* "corrupt" (a write broke off after the file was truncated) or "json"    *)
(* (data is the map of serialised sessions).                               *)

WriteOutcomes == {"ok", "fail_before", "fail_during"}

IsSnapshot(d) == d.kind = "json"

NoFile == [kind |-> "absent", data |-> EmptyDict]
BrokenFile == [kind |-> "corrupt", data |-> EmptyDict]
JsonFile(data) == [kind |-> "json", data |-> data]

\* serializable_sessions of _save_sessions
Serialize(sess) ==
    [s \in DOMAIN sess |->
        [history |-> sess[s].history, last_access |-> isoformat(sess[s].last_access)]]

\* a load that filters nothing
LoadKeepsAll(t, la) == TRUE

\* _load_sessions keeps an entry when now - last_access < timedelta(hours=ttl_hours)
LoadKeeps(t, la) == t - la < TTL

\* a purge that compares against twice the TTL
IsExpiredLate(t, la) == t - la > 2 * TTL

\* _cleanup_old_sessions deletes when now - last_access > timedelta(hours=ttl_hours)
IsExpired(t, la) == t - la > TTL

\* _load_sessions on a fresh ChatMemory (self.sessions = {})
_load_sessions(dsk, t) ==
    IF ~IsSnapshot(dsk) THEN EmptyDict
    ELSE LET saved_data == dsk.data
             keep == {s \in DOMAIN saved_data :
                         LoadKeeps(t, fromisoformat(saved_data[s].last_access))}
         IN  [s \in keep |->
                [history |-> saved_data[s].history,
                 last_access |-> fromisoformat(saved_data[s].last_access)]]

\* a save without the try/except: the write error leaves the method
SaveRaises(sess, dsk, outcome) ==
    [disk |-> CASE outcome = "ok" -> [kind |-> "json", data |-> [s \in DOMAIN sess |->
                        [history |-> sess[s].history,
                         last_access |-> isoformat(sess[s].last_access)]]]
                [] outcome = "fail_before" -> dsk
                [] OTHER -> [kind |-> "corrupt", data |-> [x \in {} |-> 0]],
     exc |-> outcome # "ok",
     failed |-> outcome # "ok"]

\* _save_sessions: the new file contents and whether an exception leaves the method
_save_sessions(sess, dsk, outcome) ==
    [disk |-> CASE outcome = "ok" -> JsonFile(Serialize(sess))
                [] outcome = "fail_before" -> dsk
                [] OTHER -> BrokenFile,
     exc |-> FALSE,
     failed |-> outcome # "ok"]

\* _cleanup_old_sessions
_cleanup_old_sessions(sess, dsk, t, outcome) ==
    LET to_delete == {s \in DOMAIN sess : IsExpired(t, sess[s].last_access)}
        kept == DictDel(sess, to_delete)
    IN  IF to_delete # {}
        THEN LET sv == _save_sessions(kept, dsk, outcome)
             IN  [sessions |-> kept, disk |-> sv.disk, exc |-> sv.exc, failed |-> sv.failed,
                  deleted |-> Cardinality(to_delete)]
        ELSE [sessions |-> kept, disk |-> dsk, exc |-> FALSE, failed |-> FALSE, deleted |-> 0]

\* a tail one message too long
KeepCountOffByOne(cap) == Min(cap, KeepPairs) + 1

\* keep_count = min(self.max_history_length, 4)
KeepCount(cap) == Min(cap, KeepPairs)

\* a cut that keeps as many messages as the cap allows
TruncateToCap(h, cap) == IF Len(h) > cap THEN SliceLast(h, cap) ELSE h

\* lines 128-132 of add_message: the cap on the history
Truncate(h, cap) == IF Len(h) > cap THEN SliceLast(h, KeepCount(cap)) ELSE h

Message(role, content, t) == [role |-> role, content |-> content, timestamp |-> isoformat(t)]

----------------------------------------------------------------------------
(* The operations of ChatMemory, each called by one thread at a time *)

Fails(failed) == IF failed THEN 1 ELSE 0

\* what is seen of the last call: the operation, whether it raised, how many
\* sessions its purge deleted (the log line of _cleanup_old_sessions) and whether
\* it cut the history of its session
RetFull(op, raised, deleted, cut) ==
    [op |-> op, raised |-> raised, deleted |-> deleted, cut |-> cut, value |-> "None"]
Ret(op, raised) == RetFull(op, raised, 0, FALSE)

\* the same for a call that returns a value
RetValue(op, raised, value) == [RetFull(op, raised, 0, FALSE) EXCEPT !.value = value]

\* the condition of line 129 of add_message on the session after the append
OverCap(sess, sid, cap) ==
    Len(IF sid \in DOMAIN sess THEN sess[sid].history ELSE <<>>) + 1 > cap

\* the session map after lines 108-132 of add_message
Appended(sess, sid, role, content, t, cap) ==
    LET s1 == IF sid \notin DOMAIN sess
              THEN DictSet(sess, sid, [history |-> <<>>, last_access |-> t])
              ELSE sess
        h2 == Append(s1[sid].history, Message(role, content, t))
    IN  DictSet(s1, sid, [history |-> Truncate(h2, cap), last_access |-> t])

\* the parts of the state that no operation of ChatMemory touches
MemFrame == UNCHANGED <<fpVars, fuseVars, indexVars, qaVars>>

\* no request thread, no text and no retrieval
ConcIdle == thr = [t \in {} |-> 0] /\ base = EmptyDict
NoFp == [taken |-> FALSE, vm_a |-> 0, vm_b |-> 0, qa_a |-> 0, qa_b |-> 0]
FpIdle == ta = <<>> /\ tb = <<>> /\ fp = NoFp
FuseIdle == raw = <<>> /\ bm = <<>> /\ fused = <<>>
IndexIdle == vsm = <<>> /\ job = <<>>
QaIdle == cls = <<>> /\ ask = <<>>

\* ChatMemory.__init__ when the process starts
MemInit ==
    /\ disk = NoFile
    /\ now = StartHour
    /\ sessions = _load_sessions(disk, now)
    /\ max_history_length \in SmallCaps
    /\ ret = Ret("init", FALSE)
    /\ wfail = 0

\* time passes
Tick ==
    /\ now < StartHour + MaxTime
    /\ now' = now + 1
    /\ UNCHANGED <<sessions, disk, ret, wfail, max_history_length>>
    /\ MemFrame

add_message(sid, role, content, o1, o2) ==
    LET c == _cleanup_old_sessions(sessions, disk, now, o1)
    IN  /\ MemFrame
        /\ IF c.exc
           THEN /\ sessions' = c.sessions
                /\ disk' = c.disk
                /\ wfail' = wfail + Fails(c.failed)
                /\ ret' = RetFull("add_message", TRUE, c.deleted, FALSE)
                /\ UNCHANGED <<now, max_history_length>>
           ELSE LET s2 == Appended(c.sessions, sid, role, content, now, max_history_length)
                    sv == _save_sessions(s2, c.disk, o2)
                IN  /\ sessions' = s2
                    /\ disk' = sv.disk
                    /\ wfail' = wfail + Fails(c.failed) + Fails(sv.failed)
                    /\ ret' = RetFull("add_message", sv.exc, c.deleted,
                                      OverCap(c.sessions, sid, max_history_length))
                    /\ UNCHANGED <<now, max_history_length>>

\* the value get_history returns
HistoryView(h, max_messages) ==
    IF max_messages # 0 /\ Len(h) > max_messages THEN SliceLast(h, max_messages) ELSE h

\* a get_history that makes the session it is asked for
GetHistoryCreates(sid, max_messages) ==
    /\ MemFrame
    /\ sessions' = DictSet(sessions, sid,
                           [history |-> IF sid \in DOMAIN sessions THEN sessions[sid].history
                                        ELSE <<>>,
                            last_access |-> now])
    /\ UNCHANGED <<disk, now, ret, wfail, max_history_length>>

\* get_history hands out the history and refreshes last_access, without a save
get_history(sid, max_messages) ==
    /\ MemFrame
    /\ IF sid \notin DOMAIN sessions
       THEN UNCHANGED <<sessions, disk, now, ret, wfail, max_history_length>>
       ELSE /\ sessions' = [sessions EXCEPT ![sid].last_access = now]
            /\ UNCHANGED <<disk, now, ret, wfail, max_history_length>>

\* a clear_history that counts as an access of the session
ClearHistoryTouches(sid, o) ==
    /\ MemFrame
    /\ IF sid \in DOMAIN sessions
       THEN LET s1 == [sessions EXCEPT ![sid] = [history |-> <<>>, last_access |-> now]]
                sv == _save_sessions(s1, disk, o)
            IN  /\ sessions' = s1
                /\ disk' = sv.disk
                /\ wfail' = wfail + Fails(sv.failed)
                /\ ret' = RetValue("clear_history", sv.exc, "True")
                /\ UNCHANGED <<now, max_history_length>>
       ELSE /\ ret' = RetValue("clear_history", FALSE, "False")
            /\ UNCHANGED <<sessions, disk, now, wfail, max_history_length>>

clear_history(sid, o) ==
    /\ MemFrame
    /\ IF sid \in DOMAIN sessions
       THEN LET s1 == [sessions EXCEPT ![sid].history = <<>>]
                sv == _save_sessions(s1, disk, o)
            IN  /\ sessions' = s1
                /\ disk' = sv.disk
                /\ wfail' = wfail + Fails(sv.failed)
                /\ ret' = RetValue("clear_history", sv.exc, "True")
                /\ UNCHANGED <<now, max_history_length>>
       ELSE /\ ret' = RetValue("clear_history", FALSE, "False")
            /\ UNCHANGED <<sessions, disk, now, wfail, max_history_length>>

\* get_session_info reads the map and changes nothing
get_session_info(sid) ==
    /\ MemFrame
    /\ UNCHANGED <<sessions, disk, now, ret, wfail, max_history_length>>

\* the process stops and starts again: chat_memory = ChatMemory()
Restart ==
    /\ sessions' = _load_sessions(disk, now)
    /\ ret' = Ret("init", FALSE)
    /\ UNCHANGED <<disk, now, wfail, max_history_length>>
    /\ MemFrame

\* the outcomes a write can have while the budget of failures lasts
Outcomes(used) == IF used < MaxFails THEN WriteOutcomes ELSE {"ok"}

\* the outcomes of the write of the purge: there is one only when a session is expired
PurgeOutcomes ==
    IF \E s \in DOMAIN sessions : IsExpired(now, sessions[s].last_access)
    THEN Outcomes(wfail) ELSE {"ok"}

AddMessage == \E sid \in SessionIds, role \in SpecRoles, content \in Contents :
              \E o1 \in PurgeOutcomes :
              \E o2 \in Outcomes(wfail + Fails(o1 # "ok")) :
                  add_message(sid, role, content, o1, o2)
GetHistory == \E sid \in SessionIds, m \in MaxMessagesArgs : get_history(sid, m)
ClearHistory == \E sid \in SessionIds, o \in Outcomes(wfail) : clear_history(sid, o)
GetSessionInfo == \E sid \in SessionIds : get_session_info(sid)

MemNext ==
    \/ Tick /\ UNCHANGED concVars
    \/ AddMessage /\ UNCHANGED concVars
    \/ GetHistory /\ UNCHANGED concVars
    \/ ClearHistory /\ UNCHANGED concVars
    \/ GetSessionInfo /\ UNCHANGED concVars
    \/ Restart /\ UNCHANGED concVars

Init == MemInit /\ ConcIdle /\ FpIdle /\ FuseIdle /\ IndexIdle /\ QaIdle
Next == MemNext
Spec == Init /\ [][Next]_vars

----------------------------------------------------------------------------
(* SpecCap: the cap on the history, for every max_history_length up to MaxCap, *)
(* with messages of both roles, a disk that works and a clock that stands.    *)

CapInit ==
    /\ disk = NoFile
    /\ now = StartHour
    /\ sessions = _load_sessions(disk, now)
    /\ max_history_length \in 1..MaxCap
    /\ ret = Ret("init", FALSE)
    /\ wfail = 0
    /\ ConcIdle /\ FpIdle /\ FuseIdle /\ IndexIdle /\ QaIdle

CapAddMessage == \E sid \in SessionIds, role \in Roles, content \in Contents :
                     add_message(sid, role, content, "ok", "ok")
CapClearHistory == \E sid \in SessionIds : clear_history(sid, "ok")

CapNext ==
    \/ CapAddMessage /\ UNCHANGED concVars
    \/ CapClearHistory /\ UNCHANGED concVars

SpecCap == CapInit /\ [][CapNext]_vars

TypeOK ==
    /\ DOMAIN sessions \subseteq SessionIds
    /\ now \in StartHour..(StartHour + MaxTime)
    /\ wfail \in 0..MaxFails

----------------------------------------------------------------------------
(* Properties of the session memory *)

\* what get_history(s) returns in the session map sess
Hist(sess, s) == IF s \in DOMAIN sess THEN sess[s].history ELSE <<>>

\* the session s of the map sess was last accessed more than the TTL before t
OlderThanTTL(sess, s, t) == t - sess[s].last_access > ttl_hours

\* h is what is left of the history old after msg was appended and the cap applied
IsAppendOf(h, old, msg) ==
    /\ Len(h) >= 1
    /\ Len(h) <= Len(old) + 1
    /\ h[Len(h)] = msg
    /\ \A i \in 1..(Len(h) - 1) : h[i] = old[Len(old) - (Len(h) - 1) + i]

\* the step changes the session map as a call add_message(sid, role, content) does
IsAddMessage(sid, role, content) ==
    /\ now' = now
    /\ ret'.op = "add_message"
    /\ sessions' = Appended(_cleanup_old_sessions(sessions, disk, now, "ok").sessions,
                            sid, role, content, now, max_history_length)

\* the step changes the session map as a call clear_history(sid) of a session that
\* exists does
IsClearHistory(sid) ==
    /\ now' = now
    /\ ret'.op = "clear_history"
    /\ sid \in DOMAIN sessions
    /\ sessions' = [sessions EXCEPT ![sid].history = <<>>]

\* C1: after add_message on any session, a session that was older than the TTL
\* when the call started shows no earlier message (nothing, or only the new
\* message when it is the target), and a session within the TTL keeps its
\* history but for the append to the target.
C1_AddMessagePurgesExpired ==
    [][\A sid \in SessionIds, role \in SpecRoles, content \in Contents :
          IsAddMessage(sid, role, content) =>
              /\ \A s \in DOMAIN sessions :
                    IF OlderThanTTL(sessions, s, now)
                    THEN Hist(sessions', s) =
                            (IF s = sid THEN <<Message(role, content, now)>> ELSE <<>>)
                    ELSE IF s = sid
                         THEN IsAppendOf(Hist(sessions', s), sessions[s].history,
                                         Message(role, content, now))
                         ELSE /\ s \in DOMAIN sessions'
                              /\ sessions'[s].history = sessions[s].history
              /\ sid \notin DOMAIN sessions => Hist(sessions', sid) = <<Message(role, content, now)>>
      ]_vars

\* an add_message has purged a session and left another one in place
C1_Witness ==
    /\ ret.op = "add_message"
    /\ ret.deleted >= 1
    /\ \E s \in DOMAIN sessions : sessions[s].last_access < now /\ Len(sessions[s].history) >= 1

\* a call that changes the session map: add_message, or clear_history of a session
\* that exists
MutatingCall ==
    \/ AddMessage
    \/ \E sid \in DOMAIN sessions, o \in WriteOutcomes : clear_history(sid, o)

\* C2: every mutating call, clear_history as well as add_message, purges every
\* session older than the TTL from the map, and from the snapshot it writes,
\* before its own mutation.
C2_EveryMutatingCallPurges ==
    [][MutatingCall =>
          \A s \in DOMAIN sessions :
              OlderThanTTL(sessions, s, now) =>
                  \/ s \notin DOMAIN sessions'
                  \/ sessions'[s].last_access = now
      ]_vars

\* C3: once add_message has returned, no history is longer than max_history_length.
C3_HistoryWithinCap ==
    \A s \in DOMAIN sessions : Len(sessions[s].history) <= max_history_length

\* an add_message went over a cap above 4 and cut the history down to 4 messages
C3_Witness ==
    /\ ret.op = "add_message"
    /\ ret.cut
    /\ max_history_length > KeepPairs
    /\ \E s \in DOMAIN sessions : Len(sessions[s].history) = KeepPairs

\* C4: while no write has failed, the snapshot equals the session map: same
\* sessions, same histories, same last_access.
C4_SnapshotEqualsMap ==
    wfail = 0 =>
        IF disk.kind = "json"
        THEN /\ DOMAIN disk.data = DOMAIN sessions
             /\ \A s \in DOMAIN sessions :
                    /\ disk.data[s].history = sessions[s].history
                    /\ disk.data[s].last_access = isoformat(sessions[s].last_access)
        ELSE sessions = EmptyDict

\* the entry of session s in the snapshot is the one saved from the session map
SavedFromMemory(s) ==
    /\ s \in DOMAIN disk.data
    /\ disk.data[s].history = sessions[s].history
    /\ disk.data[s].last_access = isoformat(sessions[s].last_access)

\* C5: a load drops every saved entry whose age has reached the TTL, and makes
\* every younger entry visible with the history and last_access it was saved with;
\* nothing else becomes visible.
C5_LoadFiltersAndRestores ==
    [][Restart =>
          IF disk.kind = "json"
          THEN /\ DOMAIN sessions' \subseteq DOMAIN disk.data
               /\ \A s \in DOMAIN sessions' : sessions'[s].history = disk.data[s].history
               /\ \A s \in DOMAIN sessions :
                      SavedFromMemory(s) =>
                          IF now - sessions[s].last_access < ttl_hours
                          THEN s \in DOMAIN sessions' /\ sessions'[s] = sessions[s]
                          ELSE s \notin DOMAIN sessions'
          ELSE sessions' = EmptyDict
      ]_vars

\* after a restart one saved session is visible, with a last_access on day 1,
\* and another one was dropped
C5_Witness ==
    /\ ret.op = "init"
    /\ disk.kind = "json"
    /\ \E s \in DOMAIN sessions : sessions[s].last_access >= 24
    /\ \E s \in DOMAIN disk.data : s \notin DOMAIN sessions

\* C6: when a snapshot write fails in add_message, in its purge or in
\* clear_history, the call does not raise and the session map holds the result:
\* the message appended, the expired sessions removed, the history cleared.
C6_WriteFailureSwallowed ==
    [][wfail' > wfail =>
          /\ ~ret'.raised
          /\ \/ \E sid \in SessionIds, role \in SpecRoles, content \in Contents :
                   /\ IsAddMessage(sid, role, content)
                   /\ sid \in DOMAIN sessions'
                   /\ sessions'[sid].history[Len(sessions'[sid].history)]
                          = Message(role, content, now)
                   /\ \A s \in DOMAIN sessions \ {sid} :
                          OlderThanTTL(sessions, s, now) => s \notin DOMAIN sessions'
             \/ \E sid \in DOMAIN sessions :
                   /\ IsClearHistory(sid)
                   /\ sessions'[sid].history = <<>>
      ]_vars

\* a write of the purge failed and the message is in the map all the same
C6_Witness ==
    /\ ret.op = "add_message"
    /\ ret.deleted >= 1
    /\ wfail >= 1
    /\ disk.kind # "json"
    /\ \E s \in DOMAIN sessions : Len(sessions[s].history) >= 1 /\ sessions[s].last_access = now

(***************************************************************************)
(* SpecConc: two requests of POST /ask run add_message at the same time.   *)
(* The endpoint is a plain def, so each request runs on its own worker     *)
(* thread against the one module-level ChatMemory; the class takes no      *)
(* lock.  A thread step is one statement of add_message or one iteration   *)
(* of a loop in _cleanup_old_sessions; the interpreter may switch threads  *)
(* between any two of them (and at finer points, which are left out: every *)
(* behaviour here is one the program has).  The clock stands and every     *)
(* write succeeds.                                                         *)
(***************************************************************************)
Threads == {"t1", "t2"}

\* the message text of the request served by thread t
ThreadContent(t) == IF t = "t1" THEN "a" ELSE "b"

IdleThread == [pc |-> "idle", sid |-> "", to_delete |-> {}, local |-> <<>>]

\* a session that received k messages at hour la
BaseSession(k, la) ==
    [history |-> [i \in 1..k |-> Message("user", "hi", la)], last_access |-> la]

\* the session maps left by sequential calls made at hour la
ConcBases(cap, la) ==
    UNION {{[s \in D |-> BaseSession(f[s], la)] : f \in [D -> 1..cap]} : D \in SUBSET SessionIds}

ConcInit ==
    /\ now = StartHour + MaxTime
    /\ max_history_length \in SmallCaps
    /\ \E la \in {StartHour, now} : base \in ConcBases(max_history_length, la)
    /\ sessions = base
    /\ disk = IF base = EmptyDict THEN NoFile ELSE JsonFile(Serialize(base))
    /\ ret = Ret("init", FALSE)
    /\ wfail = 0
    /\ thr = [t \in Threads |-> IdleThread]
    /\ FpIdle /\ FuseIdle /\ IndexIdle /\ QaIdle

ConcFrame ==
    UNCHANGED <<now, ret, wfail, max_history_length, base, fpVars, fuseVars, indexVars, qaVars>>

\* thread t moves to pc, with the locals given
Goto(t, pc) == thr' = [thr EXCEPT ![t].pc = pc]

\* self.sessions[sid] raises KeyError when the key is gone
KeyError(t) == Goto(t, "raised") /\ UNCHANGED <<sessions, disk>>

\* a request thread enters add_message(sid, "user", content)
Call(t, sid) ==
    /\ thr[t].pc = "idle"
    /\ thr' = [thr EXCEPT ![t] = [IdleThread EXCEPT !.pc = "scan", !.sid = sid]]
    /\ UNCHANGED <<sessions, disk>> /\ ConcFrame

\* _cleanup_old_sessions: the loop that collects to_delete
Scan(t) ==
    /\ thr[t].pc = "scan"
    /\ LET td == {s \in DOMAIN sessions : IsExpired(now, sessions[s].last_access)}
       IN  thr' = [thr EXCEPT ![t].to_delete = td,
                              ![t].pc = IF td = {} THEN "check" ELSE "del"]
    /\ UNCHANGED <<sessions, disk>> /\ ConcFrame

\* _cleanup_old_sessions: one del self.sessions[session_id]
Del(t) ==
    /\ thr[t].pc = "del"
    /\ \E s \in thr[t].to_delete :
         IF s \notin DOMAIN sessions
         THEN KeyError(t)
         ELSE /\ sessions' = DictDel(sessions, {s})
              /\ thr' = [thr EXCEPT ![t].to_delete = @ \ {s},
                                    ![t].pc = IF thr[t].to_delete = {s} THEN "psave" ELSE "del"]
              /\ UNCHANGED disk
    /\ ConcFrame

\* _cleanup_old_sessions: the save after the deletions
PurgeSave(t) ==
    /\ thr[t].pc = "psave"
    /\ disk' = _save_sessions(sessions, disk, "ok").disk
    /\ Goto(t, "check")
    /\ UNCHANGED sessions /\ ConcFrame

\* if session_id not in self.sessions
Check(t) ==
    /\ thr[t].pc = "check"
    /\ Goto(t, IF thr[t].sid \in DOMAIN sessions THEN "append" ELSE "create")
    /\ UNCHANGED <<sessions, disk>> /\ ConcFrame

\* self.sessions[session_id] = {"history": [], "last_access": now}
Create(t) ==
    /\ thr[t].pc = "create"
    /\ sessions' = DictSet(sessions, thr[t].sid, [history |-> <<>>, last_access |-> now])
    /\ Goto(t, "append")
    /\ UNCHANGED disk /\ ConcFrame

\* self.sessions[session_id]["history"].append(message)
AppendMessage(t) ==
    /\ thr[t].pc = "append"
    /\ IF thr[t].sid \notin DOMAIN sessions
       THEN KeyError(t)
       ELSE /\ sessions' = [sessions EXCEPT ![thr[t].sid].history =
                               Append(@, Message("user", ThreadContent(t), now))]
            /\ Goto(t, "touch")
            /\ UNCHANGED disk
    /\ ConcFrame

\* self.sessions[session_id]["last_access"] = datetime.now()
Touch(t) ==
    /\ thr[t].pc = "touch"
    /\ IF thr[t].sid \notin DOMAIN sessions
       THEN KeyError(t)
       ELSE /\ sessions' = [sessions EXCEPT ![thr[t].sid].last_access = now]
            /\ Goto(t, "capchk")
            /\ UNCHANGED disk
    /\ ConcFrame

\* if len(self.sessions[session_id]["history"]) > self.max_history_length
CapCheck(t) ==
    /\ thr[t].pc = "capchk"
    /\ IF thr[t].sid \notin DOMAIN sessions
       THEN KeyError(t)
       ELSE /\ Goto(t, IF Len(sessions[thr[t].sid].history) > max_history_length
                       THEN "slice" ELSE "save")
            /\ UNCHANGED <<sessions, disk>>
    /\ ConcFrame

\* the right-hand side self.sessions[session_id]["history"][-keep_count:], a new list
Slice(t) ==
    /\ thr[t].pc = "slice"
    /\ IF thr[t].sid \notin DOMAIN sessions
       THEN KeyError(t)
       ELSE /\ thr' = [thr EXCEPT ![t].pc = "store",
                                  ![t].local = SliceLast(sessions[thr[t].sid].history,
                                                         KeepCount(max_history_length))]
            /\ UNCHANGED <<sessions, disk>>
    /\ ConcFrame

\* the assignment self.sessions[session_id]["history"] = <the new list>
Store(t) ==
    /\ thr[t].pc = "store"
    /\ IF thr[t].sid \notin DOMAIN sessions
       THEN KeyError(t)
       ELSE /\ sessions' = [sessions EXCEPT ![thr[t].sid].history = thr[t].local]
            /\ Goto(t, "save")
            /\ UNCHANGED disk
    /\ ConcFrame

\* self._save_sessions() at the end of add_message, then the return
Save(t) ==
    /\ thr[t].pc = "save"
    /\ disk' = _save_sessions(sessions, disk, "ok").disk
    /\ Goto(t, "done")
    /\ UNCHANGED sessions /\ ConcFrame

ConcNext ==
    \/ \E t \in Threads, sid \in SessionIds : Call(t, sid)
    \/ \E t \in Threads : Scan(t)
    \/ \E t \in Threads : Del(t)
    \/ \E t \in Threads : PurgeSave(t)
    \/ \E t \in Threads : Check(t)
    \/ \E t \in Threads : Create(t)
    \/ \E t \in Threads : AppendMessage(t)
    \/ \E t \in Threads : Touch(t)
    \/ \E t \in Threads : CapCheck(t)
    \/ \E t \in Threads : Slice(t)
    \/ \E t \in Threads : Store(t)
    \/ \E t \in Threads : Save(t)

SpecConc == ConcInit /\ [][ConcNext]_vars

(***************************************************************************)
(* Properties of concurrent requests *)
(***************************************************************************)
AllReturned == \A t \in Threads : thr[t].pc = "done"

\* add_message(sid, "user", content) run alone on the map sess
SeqAddMessage(sess, sid, content) ==
    Appended(_cleanup_old_sessions(sess, NoFile, now, "ok").sessions,
             sid, "user", content, now, max_history_length)

\* the map after the call of thread t and then the call of thread u, one after the other
SeqOrder(t, u) ==
    SeqAddMessage(SeqAddMessage(base, thr[t].sid, ThreadContent(t)), thr[u].sid, ThreadContent(u))

\* the history of session s is the one some sequential order of the two calls leaves
SequentialHistory(s) ==
    Hist(sessions, s) \in {Hist(SeqOrder("t1", "t2"), s), Hist(SeqOrder("t2", "t1"), s)}

\* the session s was live when the requests arrived: no call purges or creates it
LiveAtStart(s) == s \in DOMAIN base /\ ~IsExpired(now, base[s].last_access)

\* C7: when two concurrent add_message calls on the same, existing session have
\* both returned, the history of the session is the history that one of the two
\* sequential orders of the calls produces: no appended message is lost except
\* by the cap.
C7_SameSessionSerializable ==
    (/\ AllReturned
     /\ thr["t1"].sid = thr["t2"].sid
     /\ LiveAtStart(thr["t1"].sid))
    => SequentialHistory(thr["t1"].sid)

\* C8: under concurrent add_message calls no call raises, and when the calls
\* have returned every session that a call created holds the history that a
\* sequential order of the calls leaves: no new session or first message is
\* overwritten or lost.
C8_SessionMapGuarded ==
    /\ \A t \in Threads : thr[t].pc # "raised"
    /\ AllReturned =>
         \A t \in Threads : ~LiveAtStart(thr[t].sid) => SequentialHistory(thr[t].sid)

(***************************************************************************)
(* The content fingerprint.  A text is a sequence of characters.           *)
(***************************************************************************)
MaxTextLen == 4         \* the longest text

LowerLetters == {"a"}
UpperLetters == {"A"}
Caseless == {"b"}       \* a character without a case, as a digit
Whitespace == {" ", "\t"}
Chars == LowerLetters \cup UpperLetters \cup Caseless \cup Whitespace

\* the texts of length n
RECURSIVE TextsOfLen(_)
TextsOfLen(n) ==
    IF n = 0 THEN {<<>>}
    ELSE {Append(t, c) : t \in TextsOfLen(n - 1), c \in Chars}

Texts == UNION {TextsOfLen(n) : n \in 0..MaxTextLen}

\* the lower-case letter of every capital
ToLower ==
    ("A" :> "a") @@ ("B" :> "b") @@ ("C" :> "c") @@ ("D" :> "d") @@ ("E" :> "e") @@ ("F" :> "f") @@
    ("G" :> "g") @@ ("H" :> "h") @@ ("I" :> "i") @@ ("J" :> "j") @@ ("K" :> "k") @@ ("L" :> "l") @@
    ("M" :> "m") @@ ("N" :> "n") @@ ("O" :> "o") @@ ("P" :> "p") @@ ("Q" :> "q") @@ ("R" :> "r") @@
    ("S" :> "s") @@ ("T" :> "t") @@ ("U" :> "u") @@ ("V" :> "v") @@ ("W" :> "w") @@ ("X" :> "x") @@
    ("Y" :> "y") @@ ("Z" :> "z")

\* str.lower and str.swapcase on one character
LowerChar(c) == IF c \in DOMAIN ToLower THEN ToLower[c] ELSE c
SwapCaseChar(c) == IF c = "A" THEN "a" ELSE IF c = "a" THEN "A" ELSE c

\* str.lower()
lower(text) == [i \in 1..Len(text) |-> LowerChar(text[i])]

\* str.strip(): without the leading and the trailing whitespace
strip(text) ==
    LET inked == {i \in 1..Len(text) : text[i] \notin Whitespace}
    IN  IF inked = {} THEN <<>>
        ELSE SubSeq(text, CHOOSE i \in inked : \A j \in inked : i <= j,
                          CHOOSE i \in inked : \A j \in inked : i >= j)

\* str.split(): the maximal runs of characters that are not whitespace
RECURSIVE split(_)
split(text) ==
    LET t == strip(text)
        stops == {i \in 1..Len(t) : t[i] \in Whitespace}
    IN  IF t = <<>> THEN <<>>
        ELSE IF stops = {} THEN <<t>>
        ELSE LET i == CHOOSE x \in stops : \A y \in stops : x <= y
             IN  <<SubSeq(t, 1, i - 1)>> \o split(SubSeq(t, i + 1, Len(t)))

\* sep.join(words)
RECURSIVE join(_, _)
join(sep, words) ==
    IF words = <<>> THEN <<>>
    ELSE IF Len(words) = 1 THEN words[1]
    ELSE words[1] \o sep \o join(sep, Tail(words))

\* the byte of a character, and the size of the digest space (scaled down)
Ord(c) == CASE c = "a" -> 1 [] c = "A" -> 2 [] c = "b" -> 3 [] c = " " -> 4 [] OTHER -> 5
DigestSpace == 101

\* hashlib.md5(bytes).hexdigest()[:16]: a digest that depends on every byte and
\* on its position, and that is not one-to-one
RECURSIVE md5_hexdigest16(_)
md5_hexdigest16(bytes) ==
    IF bytes = <<>> THEN 7
    ELSE (md5_hexdigest16(SubSeq(bytes, 1, Len(bytes) - 1)) * 6 + Ord(bytes[Len(bytes)])) % DigestSpace

\* a fingerprint that keeps the letter case
CreateContentHashCased(text) == md5_hexdigest16(join(<<" ">>, split(strip(text))))

\* HybridSearchVectorStoreManager._create_content_hash
_create_content_hash(text) == md5_hexdigest16(join(<<" ">>, split(lower(strip(text)))))

\* QASystem._get_content_hash
_get_content_hash(text) == md5_hexdigest16(join(<<" ">>, split(lower(strip(text)))))

(***************************************************************************)
(* SpecFp: ta is any text; tb is ta after any number of changes of letter  *)
(* case, of leading or trailing whitespace and of the length of whitespace *)
(* runs; both fingerprint functions are applied to both texts.             *)
(***************************************************************************)
MemIdle ==
    /\ sessions = EmptyDict
    /\ disk = NoFile
    /\ now = StartHour
    /\ ret = Ret("init", FALSE)
    /\ wfail = 0
    /\ max_history_length = MaxCap

FpInit ==
    /\ ta \in Texts
    /\ tb = ta
    /\ fp = NoFp
    /\ MemIdle /\ ConcIdle /\ FuseIdle /\ IndexIdle /\ QaIdle

FpFrame == UNCHANGED <<ta, memVars, concVars, fuseVars, indexVars, qaVars>>

\* the letter at position i changes its case
SwapCase(i) ==
    /\ tb[i] \in LowerLetters \cup UpperLetters
    /\ tb' = [tb EXCEPT ![i] = SwapCaseChar(@)]
    /\ fp' = NoFp
    /\ FpFrame

\* the position after character i is at an end of the text or inside a whitespace run
AtEdgeOrInRun(text, i) ==
    IF i = 0 \/ i = Len(text) THEN TRUE
    ELSE text[i] \in Whitespace \/ text[i + 1] \in Whitespace

\* a whitespace character is added after character i: at an end or next to whitespace
InsertWhitespace(i, w) ==
    /\ Len(tb) < MaxTextLen
    /\ AtEdgeOrInRun(tb, i)
    /\ tb' = SubSeq(tb, 1, i) \o <<w>> \o SubSeq(tb, i + 1, Len(tb))
    /\ fp' = NoFp
    /\ FpFrame

\* the whitespace character i goes: it led, trailed, or was not alone in its run
DeleteWhitespace(i) ==
    /\ tb[i] \in Whitespace
    /\ IF i = 1 \/ i = Len(tb) THEN TRUE
       ELSE tb[i - 1] \in Whitespace \/ tb[i + 1] \in Whitespace
    /\ tb' = SubSeq(tb, 1, i - 1) \o SubSeq(tb, i + 1, Len(tb))
    /\ fp' = NoFp
    /\ FpFrame

\* the retrieval manager and the QA system fingerprint both texts
Fingerprint ==
    /\ ~fp.taken
    /\ fp' = [taken |-> TRUE, vm_a |-> _create_content_hash(ta), vm_b |-> _create_content_hash(tb),
               qa_a |-> _get_content_hash(ta), qa_b |-> _get_content_hash(tb)]
    /\ UNCHANGED tb
    /\ FpFrame

FpNext ==
    \/ \E i \in 1..Len(tb) : SwapCase(i)
    \/ \E i \in 0..Len(tb), w \in Whitespace : InsertWhitespace(i, w)
    \/ \E i \in 1..Len(tb) : DeleteWhitespace(i)
    \/ Fingerprint

SpecFp == FpInit /\ [][FpNext]_vars

\* C9: two texts that differ only in letter case, in leading or trailing
\* whitespace and in the length of whitespace runs have the same fingerprint,
\* under _create_content_hash and under _get_content_hash, and the two
\* functions give the same key for the same text.
C9_FingerprintInvariant ==
    fp.taken =>
        /\ fp.vm_a = fp.vm_b
        /\ fp.qa_a = fp.qa_b
        /\ fp.vm_a = fp.qa_a
        /\ fp.vm_b = fp.qa_b

\* two adjacent whitespace characters between two words of the text
HasInnerRun(text) ==
    \E i \in 2..(Len(text) - 2) :
        /\ text[i] \in Whitespace /\ text[i + 1] \in Whitespace
        /\ text[1] \notin Whitespace /\ text[Len(text)] \notin Whitespace

HasDoubleWhitespace(text) ==
    \E i \in 1..(Len(text) - 1) : text[i] \in Whitespace /\ text[i + 1] \in Whitespace

\* fingerprints were taken of two texts of two words, the first with a capital
\* and a whitespace run of two, the second without capitals, with single
\* whitespace and with leading whitespace
C9_Witness ==
    /\ fp.taken
    /\ HasInnerRun(ta)
    /\ \E i \in 1..Len(ta) : ta[i] \in UpperLetters
    /\ \A i \in 1..Len(tb) : tb[i] \notin UpperLetters
    /\ ~HasDoubleWhitespace(tb)
    /\ Len(tb) > 0 /\ tb[1] \in Whitespace
    /\ Len(split(tb)) = 2

(***************************************************************************)
(* Retrieval: the dense search, the sparse search and their fusion.        *)
(* A score is an exact fraction [n, d] with d > 0 in lowest terms; the     *)
(* rounding of floating point is left out.                                 *)
(***************************************************************************)
MaxHits == 2            \* the most hits the vector index returns
MaxK == 2               \* k of hybrid_search ranges over 1..MaxK

RECURSIVE GCD(_, _)
GCD(a, b) == IF b = 0 THEN a ELSE GCD(b, a % b)

Abs(x) == IF x < 0 THEN -x ELSE x

Rat(n, d) ==
    LET g == GCD(Abs(n), d)
    IN  IF n = 0 THEN [n |-> 0, d |-> 1] ELSE [n |-> n \div g, d |-> d \div g]

RAdd(x, y) == Rat(x.n * y.d + y.n * x.d, x.d * y.d)
RSub(x, y) == Rat(x.n * y.d - y.n * x.d, x.d * y.d)
RMul(x, y) == Rat(x.n * y.n, x.d * y.d)
\* x / y for y > 0
RDiv(x, y) == Rat(x.n * y.d, x.d * y.n)
RLess(x, y) == x.n * y.d < y.n * x.d
RLeq(x, y) == x.n * y.d <= y.n * x.d

Zero == Rat(0, 1)
One == Rat(1, 1)
Two == Rat(2, 1)

vector_weight == Rat(3, 5)      \* 0.6
bm25_weight == Rat(2, 5)        \* 0.4

\* page_content of the passages: the first two differ in case and spacing only
DocTexts == {<<"a">>, <<"A", " ">>, <<"b">>}
DistanceVals == {Zero, Two, Rat(3, 1)}
BM25Vals == {Zero, One, Two}
SearchKs == {1, 2}      \* the values of vector_k and bm25_k
\* the fingerprints of the passages of DocTexts, computed once
DocFingerprint == [text \in DocTexts |-> _create_content_hash(text)]

\* _create_content_hash of a passage, looked up where it is already computed
FingerprintOf(doc) ==
    IF doc \in DocTexts THEN DocFingerprint[doc] ELSE _create_content_hash(doc)


\* the sequences over S of length n
RECURSIVE SeqsOfLen(_, _)
SeqsOfLen(S, n) ==
    IF n = 0 THEN {<<>>} ELSE {Append(q, x) : q \in SeqsOfLen(S, n - 1), x \in S}

SeqsUpTo(S, n) == UNION {SeqsOfLen(S, m) : m \in 0..n}

\* the first n elements: seq[:n]
Take(seq, n) == SubSeq(seq, 1, Min(n, Len(seq)))

\* the loop of both searches: the first k entries with a fingerprint not seen
\* before; the entries with a seen fingerprint are passed over ("continue")
RECURSIVE UniqueByHash(_, _, _, _)
UniqueByHash(results, k, seen, unique) ==
    LET fresh == {i \in 1..Len(results) : FingerprintOf(results[i].doc) \notin seen}
    IN  IF fresh = {} \/ Len(unique) >= k THEN Take(unique, k)
        ELSE LET next == CHOOSE i \in fresh : \A j \in fresh : i <= j
                 h == FingerprintOf(results[next].doc)
             IN  UniqueByHash(SubSeq(results, next + 1, Len(results)), k, seen \cup {h},
                              Append(unique, results[next]))

\* a search that fetches k candidates and drops the repeats among them
VectorSearchFetchesK(hits, k, ok) ==
    IF ~ok THEN <<>>
    ELSE UniqueByHash(Take(hits, k), k, {}, <<>>)

\* vector_search_with_score: hits are the hits of the index, nearest first;
\* ok is false when the store is missing or the search raises
vector_search_with_score(hits, k, ok) ==
    IF ~ok THEN <<>>
    ELSE UniqueByHash(Take(hits, Min(k * 5, 100)), k, {}, <<>>)

\* an insertion that puts x before the entries of the same score
InsertDescBeforeEqual(sorted, x) ==
    LET p == Cardinality({i \in 1..Len(sorted) : RLess(x.score, sorted[i].score)})
    IN  SubSeq(sorted, 1, p) \o <<x>> \o SubSeq(sorted, p + 1, Len(sorted))

\* x goes into the descending list behind every entry that scores at least as much
InsertDesc(sorted, x) ==
    LET p == Cardinality({i \in 1..Len(sorted) : RLeq(x.score, sorted[i].score)})
    IN  SubSeq(sorted, 1, p) \o <<x>> \o SubSeq(sorted, p + 1, Len(sorted))

\* sort(key=score, reverse=True): stable, entries of equal score keep their order
RECURSIVE SortedByScoreDesc(_)
SortedByScoreDesc(seq) ==
    IF seq = <<>> THEN <<>>
    ELSE InsertDesc(SortedByScoreDesc(SubSeq(seq, 1, Len(seq) - 1)), seq[Len(seq)])

\* bm25_search: scored is zip(all_documents, scores); ok is false when the
\* query has no tokens or the scoring raises
bm25_search(scored, k, ok) ==
    IF scored = <<>> \/ ~ok THEN <<>>
    ELSE UniqueByHash(SortedByScoreDesc(scored), k, {}, <<>>)

\* max(scores)
RECURSIVE MaxScore(_)
MaxScore(results) ==
    IF Len(results) = 1 THEN results[1].score
    ELSE LET m == MaxScore(Tail(results))
         IN  IF RLess(m, results[1].score) THEN results[1].score ELSE m

\* normalize_scores(results, is_distance=True)
NormalizeDistance(results) ==
    [i \in 1..Len(results) |->
        [doc |-> results[i].doc, score |-> RSub(One, RDiv(results[i].score, Two))]]

\* sparse scores that stay as the index gave them
NormalizeBM25Raw(results) == results

\* normalize_scores(results, is_distance=False)
NormalizeBM25(results) ==
    IF results = <<>> THEN <<>>
    ELSE LET max_score == MaxScore(results)
         IN  [i \in 1..Len(results) |->
                [doc |-> results[i].doc,
                 score |-> IF RLess(Zero, max_score)
                           THEN RDiv(results[i].score, max_score) ELSE Zero]]

\* the dict all_results as the list of its entries in insertion order
HasKey(d, key) == \E i \in 1..Len(d) : d[i].key = key
KeyIndex(d, key) == CHOOSE i \in 1..Len(d) : d[i].key = key

\* a dict that keeps every assignment as an entry of its own
DictPutAlways(d, key, doc, score, source) ==
    Append(d, [key |-> key, doc |-> doc, score |-> score, source |-> source])

\* all_results[key] = (doc, score, source): a new key goes to the end, a key
\* that is present keeps its place
DictPut(d, key, doc, score, source) ==
    LET entry == [key |-> key, doc |-> doc, score |-> score, source |-> source]
    IN  IF HasKey(d, key) THEN [d EXCEPT ![KeyIndex(d, key)] = entry] ELSE Append(d, entry)

\* [(doc, score) for doc, score, source in entries]
DocsAndScores(entries) ==
    [i \in 1..Len(entries) |-> [doc |-> entries[i].doc, score |-> entries[i].score]]

\* hybrid_search, the loop over norm_vector
RECURSIVE HybridAddVector(_, _)
HybridAddVector(d, norm_vector) ==
    IF norm_vector = <<>> THEN d
    ELSE LET doc == Head(norm_vector).doc
             weighted_score == RMul(Head(norm_vector).score, vector_weight)
         IN  HybridAddVector(DictPut(d, FingerprintOf(doc), doc, weighted_score, "vector"),
                             Tail(norm_vector))

\* hybrid_search, the loop over norm_bm25
RECURSIVE HybridAddBM25(_, _)
HybridAddBM25(d, norm_bm25) ==
    IF norm_bm25 = <<>> THEN d
    ELSE LET doc == Head(norm_bm25).doc
             score == Head(norm_bm25).score
             content_hash == FingerprintOf(doc)
             d2 == IF HasKey(d, content_hash)
                   THEN LET existing == d[KeyIndex(d, content_hash)]
                        IN  DictPut(d, content_hash, existing.doc,
                                    RAdd(existing.score, RMul(score, bm25_weight)), "hybrid")
                   ELSE DictPut(d, content_hash, doc, RMul(score, bm25_weight), "bm25")
         IN  HybridAddBM25(d2, Tail(norm_bm25))

\* hybrid_search, from the results of the two searches on
HybridFuse(vector_results, bm25_results, k) ==
    LET all_results == HybridAddBM25(HybridAddVector(<<>>, NormalizeDistance(vector_results)),
                                     NormalizeBM25(bm25_results))
    IN  DocsAndScores(Take(SortedByScoreDesc(all_results), k))

\* _get_chunks_from_both_searches, the loop over vector_results
RECURSIVE AskAddVector(_, _)
AskAddVector(d, vector_results) ==
    IF vector_results = <<>> THEN d
    ELSE LET doc == Head(vector_results).doc
             score == Head(vector_results).score
             similarity_score == IF RLeq(score, Two) THEN RSub(One, RDiv(score, Two)) ELSE Zero
         IN  AskAddVector(DictPut(d, _get_content_hash(doc), doc, similarity_score, "vector"),
                          Tail(vector_results))

\* _get_chunks_from_both_searches, the loop over bm25_results
RECURSIVE AskAddBM25(_, _)
AskAddBM25(d, bm25_results) ==
    IF bm25_results = <<>> THEN d
    ELSE LET doc == Head(bm25_results).doc
             score == Head(bm25_results).score
             content_hash == _get_content_hash(doc)
             d2 == IF HasKey(d, content_hash)
                   THEN LET existing == d[KeyIndex(d, content_hash)]
                        IN  DictPut(d, content_hash, existing.doc,
                                    RDiv(RAdd(existing.score, score), Two), "hybrid")
                   ELSE DictPut(d, content_hash, doc, score, "bm25")
         IN  AskAddBM25(d2, Tail(bm25_results))

\* _get_chunks_from_both_searches, from the results of the two searches on
AskFuse(vector_results, bm25_results) ==
    DocsAndScores(SortedByScoreDesc(AskAddBM25(AskAddVector(<<>>, vector_results), bm25_results)))

(***************************************************************************)
(* SpecFuse: one query.  For every list of index hits and every scored     *)
(* corpus, one of the two fusions is run, with every k.                    *)
(***************************************************************************)
Hits == {[doc |-> t, score |-> x] : t \in DocTexts, x \in DistanceVals}
Scored == {[doc |-> t, score |-> x] : t \in DocTexts, x \in BM25Vals}

\* the index returns its hits nearest first
NearestFirst(hits) == \A i \in 1..(Len(hits) - 1) : RLeq(hits[i].score, hits[i + 1].score)

\* _build_bm25_index keeps one passage per fingerprint in all_documents
OnePerFingerprint(results) ==
    \A i, j \in 1..Len(results) :
        i # j => FingerprintOf(results[i].doc) # FingerprintOf(results[j].doc)

NoFusion == [path |-> "none", k |-> 0, vector_results |-> <<>>, bm25_results |-> <<>>,
             results |-> <<>>]

FuseInit ==
    /\ raw \in {h \in SeqsUpTo(Hits, MaxHits) : NearestFirst(h)}
    /\ bm \in {c \in SeqsUpTo(Scored, Cardinality(DocTexts)) : OnePerFingerprint(c)}
    /\ fused = NoFusion
    /\ MemIdle /\ ConcIdle /\ FpIdle /\ IndexIdle /\ QaIdle

FuseFrame == UNCHANGED <<raw, bm, memVars, concVars, fpVars, indexVars, qaVars>>

hybrid_search(k, vector_k, bm25_k, vok, bok) ==
    LET vector_results == vector_search_with_score(raw, vector_k, vok)
        bm25_results == bm25_search(bm, bm25_k, bok)
    IN  /\ fused = NoFusion
        /\ fused' = [path |-> "hybrid_search", k |-> k,
                     vector_results |-> vector_results, bm25_results |-> bm25_results,
                     results |-> HybridFuse(vector_results, bm25_results, k)]
        /\ FuseFrame

_get_chunks_from_both_searches(vector_k, bm25_k, vok, bok) ==
    LET vector_results == vector_search_with_score(raw, vector_k, vok)
        bm25_results == bm25_search(bm, bm25_k, bok)
    IN  /\ fused = NoFusion
        /\ fused' = [path |-> "ask", k |-> 0,
                     vector_results |-> vector_results, bm25_results |-> bm25_results,
                     results |-> AskFuse(vector_results, bm25_results)]
        /\ FuseFrame

FuseNext ==
    \/ \E k \in 1..MaxK, vector_k \in SearchKs, bm25_k \in SearchKs, vok \in BOOLEAN, bok \in BOOLEAN :
          hybrid_search(k, vector_k, bm25_k, vok, bok)
    \/ \E vector_k \in SearchKs, bm25_k \in SearchKs, vok \in BOOLEAN, bok \in BOOLEAN :
          _get_chunks_from_both_searches(vector_k, bm25_k, vok, bok)

SpecFuse == FuseInit /\ [][FuseNext]_vars

\* the entries i and j of a result list have the same content fingerprint
SameFingerprint(results, i, j) ==
    /\ FingerprintOf(results[i].doc) = FingerprintOf(results[j].doc)
    /\ _get_content_hash(results[i].doc) = _get_content_hash(results[j].doc)

\* C10: the list that hybrid_search returns and the list that
\* _get_chunks_from_both_searches builds never hold two entries with the same
\* content fingerprint.
C10_FusedFingerprintsUnique ==
    \A i, j \in 1..Len(fused.results) : i # j => ~SameFingerprint(fused.results, i, j)

\* a fusion of two entries, one of them a passage that both searches found
\* under texts that differ in case and spacing, from index hits with a repeat
C10_Witness ==
    /\ fused.path # "none"
    /\ Len(fused.results) = 2
    /\ \E i \in 1..Len(fused.vector_results), j \in 1..Len(fused.bm25_results) :
          /\ fused.vector_results[i].doc # fused.bm25_results[j].doc
          /\ FingerprintOf(fused.vector_results[i].doc)
               = FingerprintOf(fused.bm25_results[j].doc)
    /\ \E i, j \in 1..Len(raw) :
          i # j /\ FingerprintOf(raw[i].doc) = FingerprintOf(raw[j].doc)

\* the passage with fingerprint h is in the list
Found(results, h) == \E i \in 1..Len(results) : FingerprintOf(results[i].doc) = h

\* the score that the list gives to the passage with fingerprint h
ScoreIn(results, h) ==
    results[CHOOSE i \in 1..Len(results) : FingerprintOf(results[i].doc) = h].score

\* the largest sparse score of the batch
BatchMaximum(results) ==
    LET scores == {results[i].score : i \in 1..Len(results)}
    IN  CHOOSE m \in scores : \A x \in scores : RLeq(x, m)

\* denseWeight x similarity, for a passage of the dense results
DenseContribution(h) ==
    IF Found(fused.vector_results, h)
    THEN RMul(vector_weight, RSub(One, RDiv(ScoreIn(fused.vector_results, h), Two)))
    ELSE Zero

\* sparseWeight x (sparse score / maximum of the batch), for a passage of the
\* sparse results; a batch whose maximum is not positive contributes 0
SparseContribution(h) ==
    IF Found(fused.bm25_results, h)
    THEN IF RLess(Zero, BatchMaximum(fused.bm25_results))
         THEN RMul(bm25_weight, RDiv(ScoreIn(fused.bm25_results, h),
                                     BatchMaximum(fused.bm25_results)))
         ELSE Zero
    ELSE Zero

\* C11: every entry that hybrid_search returns carries the score
\* vector_weight x (1 - distance/2), if the passage is in the dense results,
\* plus bm25_weight x (score / maximum score of the sparse results), if it is in
\* the sparse results: one contribution for a passage found by one search, the
\* sum of both (not the average) for a passage found by both.
C11_FusedScoreIsWeightedSum ==
    fused.path = "hybrid_search" =>
        \A i \in 1..Len(fused.results) :
            LET h == FingerprintOf(fused.results[i].doc)
            IN  fused.results[i].score = RAdd(DenseContribution(h), SparseContribution(h))

\* hybrid_search returned a passage that both searches found, each with a
\* positive contribution, next to a passage that one search found, from a
\* sparse batch whose maximum is not 1
C11_Witness ==
    /\ fused.path = "hybrid_search"
    /\ Len(fused.bm25_results) > 0
    /\ BatchMaximum(fused.bm25_results) = Two
    /\ \E i, j \in 1..Len(fused.results) :
          LET hi == FingerprintOf(fused.results[i].doc)
              hj == FingerprintOf(fused.results[j].doc)
          IN  /\ RLess(Zero, DenseContribution(hi)) /\ RLess(Zero, SparseContribution(hi))
              /\ RLess(SparseContribution(hi), RMul(bm25_weight, One))
              /\ Found(fused.vector_results, hj) # Found(fused.bm25_results, hj)

\* C12: the list that _get_chunks_from_both_searches builds is the list that the
\* fusion of hybrid_search gives for the same dense and sparse results: the
\* same passages, in the same order, with the same scores.
C12_AskFollowsFusionLaw ==
    fused.path = "ask" =>
        fused.results = HybridFuse(fused.vector_results, fused.bm25_results,
                                   Len(fused.vector_results) + Len(fused.bm25_results))

(***************************************************************************)
(* SpecIndex: _build_bm25_index rebuilds the sparse index of a manager     *)
(* while a bm25_search of another thread runs on it.  The manager takes no *)
(* lock.  A step is one statement (one round of the loop) of the builder,  *)
(* or one statement of the search.  bm25_index is the list of passages the *)
(* index was built over, or NoIndex; the score of a passage for the query  *)
(* is fixed.                                                               *)
(***************************************************************************)
MaxDocuments == 2       \* the most documents handed to _build_bm25_index

NoIndex == [built |-> FALSE, corpus |-> <<>>]

\* BM25Okapi(all_documents_content)
BM25Okapi(docs) == [built |-> TRUE, corpus |-> docs]

\* the score of a passage for the query
QueryScore(doc) == IF _create_content_hash(doc) = _create_content_hash(<<"a">>) THEN Two ELSE One

\* bm25_index.get_scores(query_tokens): one score per passage of the index
get_scores(index) == [i \in 1..Len(index.corpus) |-> QueryScore(index.corpus[i])]

\* list(zip(all_documents, scores)): as long as the shorter of the two
Zip(all_documents, scores) ==
    [i \in 1..Min(Len(all_documents), Len(scores)) |->
        [doc |-> all_documents[i], score |-> scores[i]]]

\* the loop of _build_bm25_index: one document per fingerprint, in order
RECURSIVE DedupDocuments(_, _, _)
DedupDocuments(documents, seen, kept) ==
    IF documents = <<>> THEN kept
    ELSE LET h == _create_content_hash(Head(documents))
         IN  IF h \in seen THEN DedupDocuments(Tail(documents), seen, kept)
             ELSE DedupDocuments(Tail(documents), seen \cup {h}, Append(kept, Head(documents)))

\* the manager after _build_bm25_index(documents) has run alone on the manager m
BuiltAlone(m, documents) ==
    LET docs == DedupDocuments(documents, {}, <<>>)
    IN  [all_documents |-> docs,
         bm25_index |-> IF docs # <<>> THEN BM25Okapi(docs) ELSE m.bm25_index]

\* the manager of __init__, before any build
FreshManager == [all_documents |-> <<>>, bm25_index |-> NoIndex]

IndexInit ==
    /\ \E old \in SeqsUpTo(DocTexts, MaxDocuments), documents \in SeqsUpTo(DocTexts, MaxDocuments) :
          /\ vsm = BuiltAlone(FreshManager, old)
          /\ job = [bpc |-> "idle", documents |-> documents, todo |-> <<>>, seen_content |-> {},
                    spc |-> "idle", scores |-> <<>>, seen_index |-> NoIndex, seen_docs |-> <<>>,
                    result |-> <<>>, old |-> BuiltAlone(FreshManager, old)]
    /\ MemIdle /\ ConcIdle /\ FpIdle /\ FuseIdle /\ QaIdle

IndexFrame == UNCHANGED <<memVars, concVars, fpVars, fuseVars, qaVars>>

\* self.all_documents = []; self.all_documents_content = []; seen_content = set()
BuildReset ==
    /\ job.bpc = "idle"
    /\ vsm' = [vsm EXCEPT !.all_documents = <<>>]
    /\ job' = [job EXCEPT !.bpc = "loop", !.todo = job.documents, !.seen_content = {}]
    /\ IndexFrame

\* one round of for doc in documents
BuildAppend ==
    /\ job.bpc = "loop"
    /\ job.todo # <<>>
    /\ LET doc == Head(job.todo)
           h == _create_content_hash(doc)
       IN  IF h \in job.seen_content
           THEN /\ job' = [job EXCEPT !.todo = Tail(@)]
                /\ UNCHANGED vsm
           ELSE /\ vsm' = [vsm EXCEPT !.all_documents = Append(@, doc)]
                /\ job' = [job EXCEPT !.todo = Tail(@), !.seen_content = @ \cup {h}]
    /\ IndexFrame

\* if self.all_documents_content: self.bm25_index = BM25Okapi(...)
BuildIndex ==
    /\ job.bpc = "loop"
    /\ job.todo = <<>>
    /\ vsm' = IF vsm.all_documents # <<>>
              THEN [vsm EXCEPT !.bm25_index = BM25Okapi(vsm.all_documents)]
              ELSE vsm
    /\ job' = [job EXCEPT !.bpc = "done"]
    /\ IndexFrame

\* bm25_search: if not self.bm25_index or not self.all_documents: return []
SearchGuard ==
    /\ job.spc = "idle"
    /\ job' = IF ~vsm.bm25_index.built \/ vsm.all_documents = <<>>
              THEN [job EXCEPT !.spc = "done", !.result = <<>>,
                               !.seen_index = vsm.bm25_index, !.seen_docs = vsm.all_documents]
              ELSE [job EXCEPT !.spc = "scores"]
    /\ UNCHANGED vsm
    /\ IndexFrame

\* scores = self.bm25_index.get_scores(query_tokens)
SearchScores ==
    /\ job.spc = "scores"
    /\ job' = [job EXCEPT !.spc = "zip", !.scores = get_scores(vsm.bm25_index),
                          !.seen_index = vsm.bm25_index]
    /\ UNCHANGED vsm
    /\ IndexFrame

\* scored_docs = list(zip(self.all_documents, scores)), then the sort, the
\* dedup loop and the return
SearchZip(k) ==
    /\ job.spc = "zip"
    /\ job' = [job EXCEPT !.spc = "done", !.seen_docs = vsm.all_documents,
                          !.result = UniqueByHash(SortedByScoreDesc(Zip(vsm.all_documents, job.scores)),
                                                  k, {}, <<>>)]
    /\ UNCHANGED vsm
    /\ IndexFrame

IndexNext ==
    \/ BuildReset
    \/ BuildAppend
    \/ BuildIndex
    \/ SearchGuard
    \/ SearchScores
    \/ \E k \in SearchKs : SearchZip(k)

SpecIndex == IndexInit /\ [][IndexNext]_vars

\* what the search read of the manager
SeenBySearch == [all_documents |-> job.seen_docs, bm25_index |-> job.seen_index]

\* C13: a bm25_search that runs while _build_bm25_index rebuilds the index
\* reads either the document list and the index from before the rebuild, or
\* the document list and the index that the rebuild leaves: never an emptied or
\* half-filled list, and never a list paired with the index of another corpus.
C13_RebuildIsAtomicSwap ==
    job.spc = "done" => SeenBySearch \in {job.old, BuiltAlone(job.old, job.documents)}

(***************************************************************************)
(* Question classification.  A text is a sequence of characters; words of  *)
(* the Cyrillic vocabulary are written in Latin letters.  In a response of *)
(* the model one element of the sequence may be a JSON lexeme: the member  *)
(* list of a JSON object, written without braces.                          *)
(***************************************************************************)
\* sub in text
Contains(text, sub) ==
    \E i \in 1..(Len(text) - Len(sub) + 1) : SubSeq(text, i, i + Len(sub) - 1) = sub

\* the member lists of the JSON objects: the values of the fields
\* is_about_company and confidence as the response spells them
JsonMembers ==
    ("iac=absent;conf=absent" :> [is_about_company |-> "absent", confidence |-> "absent"]) @@
    ("iac=absent;conf=0.5" :> [is_about_company |-> "absent", confidence |-> "0.5"]) @@
    ("iac=absent;conf=1.5" :> [is_about_company |-> "absent", confidence |-> "1.5"]) @@
    ("iac=absent;conf=-0.5" :> [is_about_company |-> "absent", confidence |-> "-0.5"]) @@
    ("iac=absent;conf='0.9'" :> [is_about_company |-> "absent", confidence |-> "'0.9'"]) @@
    ("iac=absent;conf='high'" :> [is_about_company |-> "absent", confidence |-> "'high'"]) @@
    ("iac=absent;conf=null" :> [is_about_company |-> "absent", confidence |-> "null"]) @@
    ("iac=true;conf=absent" :> [is_about_company |-> "true", confidence |-> "absent"]) @@
    ("iac=true;conf=0.5" :> [is_about_company |-> "true", confidence |-> "0.5"]) @@
    ("iac=true;conf=1.5" :> [is_about_company |-> "true", confidence |-> "1.5"]) @@
    ("iac=true;conf=-0.5" :> [is_about_company |-> "true", confidence |-> "-0.5"]) @@
    ("iac=true;conf='0.9'" :> [is_about_company |-> "true", confidence |-> "'0.9'"]) @@
    ("iac=true;conf='high'" :> [is_about_company |-> "true", confidence |-> "'high'"]) @@
    ("iac=true;conf=null" :> [is_about_company |-> "true", confidence |-> "null"]) @@
    ("iac=false;conf=absent" :> [is_about_company |-> "false", confidence |-> "absent"]) @@
    ("iac=false;conf=0.5" :> [is_about_company |-> "false", confidence |-> "0.5"]) @@
    ("iac=false;conf=1.5" :> [is_about_company |-> "false", confidence |-> "1.5"]) @@
    ("iac=false;conf=-0.5" :> [is_about_company |-> "false", confidence |-> "-0.5"]) @@
    ("iac=false;conf='0.9'" :> [is_about_company |-> "false", confidence |-> "'0.9'"]) @@
    ("iac=false;conf='high'" :> [is_about_company |-> "false", confidence |-> "'high'"]) @@
    ("iac=false;conf=null" :> [is_about_company |-> "false", confidence |-> "null"])

\* company_keywords, in the order of the list (a part of it)
company_keywords ==
    <<<<"n", "e", "o", "f", "l", "e", "x">>,
      <<"n", "e", "o", "f", "l", "e", "k", "s">>,
      <<"o", "f", "i", "s">>,
      <<"m", "l", "o", "p", "s">>,
      <<"a", "i">>>>

\* the spellings of the company name in the explicit-mention test
company_names == {<<"n", "e", "o", "f", "l", "e", "x">>, <<"n", "e", "o", "f", "l", "e", "k", "s">>}

Questions ==
    {<<"N", "e", "o", "f", "l", "e", "x", "?">>,
     <<"o", "f", "i", "s", " ", "N", "e", "o", "f", "l", "e", "x">>,
     <<"O", "F", "I", "S">>,
     <<"N", "E", "O", "F", "L", "E", "K", "S">>,
     <<"r", "a", "i", "n">>,
     <<"p", "o", "g", "o", "d", "a">>,
     <<>>}

\* the confidences that the code writes
Conf06 == Rat(6, 10)
Conf07 == Rat(7, 10)
Conf08 == Rat(8, 10)
Conf09 == Rat(9, 10)

\* a keyword test that knows the two company names only
FirstCompanyName(text) ==
    LET hits == {i \in 1..2 : Contains(text, company_keywords[i])}
    IN  IF hits = {} THEN 0 ELSE CHOOSE i \in hits : \A j \in hits : i <= j

\* the first keyword of the list that is in the text, 0 if none is
FirstKeyword(text) ==
    LET hits == {i \in 1..Len(company_keywords) : Contains(text, company_keywords[i])}
    IN  IF hits = {} THEN 0 ELSE CHOOSE i \in hits : \A j \in hits : i <= j

\* QASystem._classify_with_heuristics
_classify_with_heuristics(question) ==
    LET question_lower == lower(question)
    IN  IF FirstKeyword(question_lower) # 0
        THEN [is_about_company |-> TRUE, category |-> "keyword_heuristic", confidence |-> Conf07]
        ELSE IF \E name \in company_names : Contains(question_lower, name)
        THEN [is_about_company |-> TRUE, category |-> "explicit_mention", confidence |-> Conf09]
        ELSE [is_about_company |-> FALSE, category |-> "general_heuristic", confidence |-> Conf06]

\* the texts that _call_llm returns in place of an answer
ErrNoKey == <<"O", "s", "h", "i", "b", "k", "a", ":", " ", "A", "P", "I", " ", "k", "l", "y", "u", "c", "h", " ", "n", "e", " ", "n", "a", "s", "t", "r", "o", "e", "n">>
ErrRequest == <<"O", "s", "h", "i", "b", "k", "a", " ", "p", "r", "i", " ", "o", "b", "r", "a", "s", "h", "c", "h", "e", "n", "i", "i", " ", "k", " ", "m", "o", "d", "e", "l", "i", ":", " ", "t", "i", "m", "e", "o", "u", "t">>
ErrParse == <<"O", "s", "h", "i", "b", "k", "a", " ", "p", "r", "i", " ", "o", "b", "r", "a", "b", "o", "t", "k", "e", " ", "o", "t", "v", "e", "t", "a", " ", "o", "t", " ", "m", "o", "d", "e", "l", "i">>

\* what happens to the HTTP call of _call_llm: no API key is configured; the
\* request raises a RequestException (timeout, transport error, HTTP error
\* status, a body that is not JSON); the body lacks a key or a choice; the body
\* has another shape (content is null, choices is not a list); or the body
\* carries the text content
FailedCalls == {[kind |-> k, content |-> <<>>] :
                  k \in {"no_key", "request_exception", "key_error", "type_error"}}
OkCall(content) == [kind |-> "ok", content |-> content]

\* QASystem._call_llm: the text it returns, or the exception that escapes it
_call_llm(outcome) ==
    CASE outcome.kind = "no_key" -> [raised |-> FALSE, answer |-> ErrNoKey]
      [] outcome.kind = "request_exception" -> [raised |-> FALSE, answer |-> ErrRequest]
      [] outcome.kind = "key_error" -> [raised |-> FALSE, answer |-> ErrParse]
      [] outcome.kind = "type_error" -> [raised |-> TRUE, answer |-> <<>>]
      [] OTHER -> [raised |-> FALSE, answer |-> strip(outcome.content)]

\* a _call_llm that returns an error text for every body it cannot read
CallLLMCatchesAll(outcome) ==
    IF outcome.kind = "type_error" THEN [raised |-> FALSE, answer |-> ErrParse]
    ELSE _call_llm(outcome)

NoJson == [found |-> FALSE, empty |-> TRUE, is_about_company |-> "absent", confidence |-> "absent"]

\* json.loads(json_str): the object, or JSONDecodeError
json_loads(json_str) ==
    IF json_str = <<"{", "}">>
    THEN [found |-> TRUE, empty |-> TRUE, is_about_company |-> "absent", confidence |-> "absent"]
    ELSE IF Len(json_str) = 3 /\ json_str[1] = "{" /\ json_str[3] = "}"
            /\ json_str[2] \in DOMAIN JsonMembers
    THEN [found |-> TRUE, empty |-> FALSE,
          is_about_company |-> JsonMembers[json_str[2]].is_about_company,
          confidence |-> JsonMembers[json_str[2]].confidence]
    ELSE NoJson

\* QASystem._extract_json_from_response: re.search(r'\{.*\}', response, re.DOTALL)
\* matches from the first "{" to the last "}"
_extract_json_from_response(response) ==
    LET opens == {i \in 1..Len(response) : response[i] = "{"}
        closes == {i \in 1..Len(response) : response[i] = "}"}
    IN  IF opens = {} \/ closes = {} THEN NoJson
        ELSE LET first == CHOOSE i \in opens : \A j \in opens : i <= j
                 last == CHOOSE i \in closes : \A j \in closes : i >= j
             IN  IF first < last THEN json_loads(SubSeq(response, first, last)) ELSE NoJson

\* a float() that takes every value for a number
FloatLenient(v) == [raised |-> FALSE, value |-> Conf08]

\* float(result_json.get("confidence", 0.8))
float(v) ==
    CASE v = "absent" -> [raised |-> FALSE, value |-> Conf08]
      [] v = "0.5" -> [raised |-> FALSE, value |-> Rat(1, 2)]
      [] v = "1.5" -> [raised |-> FALSE, value |-> Rat(3, 2)]
      [] v = "-0.5" -> [raised |-> FALSE, value |-> Rat(-1, 2)]
      [] v = "'0.9'" -> [raised |-> FALSE, value |-> Conf09]
      [] OTHER -> [raised |-> TRUE, value |-> Zero]

\* the try block of _classify_question_with_llm: it returns, falls through or raises
TryLLMClassification(outcome) ==
    LET classification_result == _call_llm(outcome)
        result_json == _extract_json_from_response(classification_result.answer)
        confidence == float(result_json.confidence)
        nothing == [is_about_company |-> FALSE, category |-> "", confidence |-> Zero]
    IN  IF classification_result.raised
        THEN [raised |-> TRUE, returned |-> FALSE, result |-> nothing]
        ELSE IF result_json.found /\ ~result_json.empty /\ result_json.is_about_company # "absent"
        THEN IF confidence.raised
             THEN [raised |-> TRUE, returned |-> FALSE, result |-> nothing]
             ELSE [raised |-> FALSE, returned |-> TRUE,
                   result |-> [is_about_company |-> result_json.is_about_company = "true",
                               category |-> "llm_classification",
                               confidence |-> confidence.value]]
        ELSE [raised |-> FALSE, returned |-> FALSE, result |-> nothing]

\* QASystem._classify_question_with_llm: "except Exception" takes whatever the
\* try block raises, and the heuristic is the last statement
_classify_question_with_llm(question, outcome) ==
    LET try == TryLLMClassification(outcome)
        caught == try.raised
    IN  [raised |-> try.raised /\ ~caught,
         llm_calls |-> 1,
         result |-> IF try.returned THEN try.result ELSE _classify_with_heuristics(question)]

\* the classification of ask_question when classify_question is False
ForcedClassification ==
    [is_about_company |-> TRUE, category |-> "forced_company", confidence |-> One]

\* the contents a model can answer the classification prompt with
Prose == <<"d", "a", ",", " ", "o", " ", "k", "o", "m", "p", "a", "n", "i", "i">>
Lexemes == DOMAIN JsonMembers
NoObjectResponses ==
    {<<>>, Prose, <<"}", "{">>} \cup {<<"{", m>> : m \in Lexemes}
UnparsableResponses ==
    {<<"{", "x", "}">>} \cup {<<"{", m, "}", "}">> : m \in Lexemes}
    \cup {<<"{", m, "}", "x", "{", m, "}">> : m \in Lexemes}
MissingFieldResponses ==
    {<<"{", "}">>} \cup {<<"{", m, "}">> : m \in {l \in Lexemes : JsonMembers[l].is_about_company = "absent"}}
NonNumericResponses ==
    {<<"{", m, "}">> : m \in {l \in Lexemes : /\ JsonMembers[l].is_about_company # "absent"
                                             /\ JsonMembers[l].confidence \in {"'high'", "null"}}}
VerdictResponses ==
    {<<"{", m, "}">> : m \in Lexemes} \cup {<<" ", "{", m, "}", " ">> : m \in Lexemes}
    \cup {<<"x", "{", m, "}", "x">> : m \in Lexemes}
ClassificationResponses ==
    NoObjectResponses \cup UnparsableResponses \cup MissingFieldResponses
    \cup NonNumericResponses \cup VerdictResponses
ClassificationOutcomes == FailedCalls \cup {OkCall(c) : c \in ClassificationResponses}

NoCall == [kind |-> "none", content |-> <<>>]
NoCls == [mode |-> "none", question |-> <<>>, outcome |-> NoCall, raised |-> FALSE,
          llm_calls |-> 0,
          result |-> [is_about_company |-> FALSE, category |-> "", confidence |-> Zero]]

ClassifyInit ==
    /\ MemIdle /\ ConcIdle /\ FpIdle /\ FuseIdle /\ IndexIdle
    /\ cls = NoCls
    /\ ask = <<>>

ClassifyFrame == UNCHANGED <<ask, memVars, concVars, fpVars, fuseVars, indexVars>>

\* ask_question, classify_question = True: the model classifies the question
ClassifyWithLLM(question, outcome) ==
    /\ cls = NoCls
    /\ LET c == _classify_question_with_llm(question, outcome)
       IN  cls' = [mode |-> "llm", question |-> question, outcome |-> outcome,
                   raised |-> c.raised, llm_calls |-> c.llm_calls, result |-> c.result]
    /\ ClassifyFrame

\* _classify_with_heuristics called on its own
ClassifyWithHeuristics(question) ==
    /\ cls = NoCls
    /\ cls' = [mode |-> "heuristic", question |-> question, outcome |-> NoCall,
               raised |-> FALSE, llm_calls |-> 0,
               result |-> _classify_with_heuristics(question)]
    /\ ClassifyFrame

\* ask_question, classify_question = False
ClassifyForced(question) ==
    /\ cls = NoCls
    /\ cls' = [mode |-> "forced", question |-> question, outcome |-> NoCall,
               raised |-> FALSE, llm_calls |-> 0, result |-> ForcedClassification]
    /\ ClassifyFrame

ClassifyNext ==
    \/ \E question \in Questions, outcome \in ClassificationOutcomes :
          ClassifyWithLLM(question, outcome)
    \/ \E question \in Questions : ClassifyWithHeuristics(question)
    \/ \E question \in Questions : ClassifyForced(question)

SpecClassify == ClassifyInit /\ [][ClassifyNext]_vars

\* the failures of the classification call that the heuristic stands in for
ClaimedFailure(outcome) ==
    \/ outcome \in FailedCalls
    \/ /\ outcome.kind = "ok"
       /\ outcome.content \in NoObjectResponses \cup UnparsableResponses
                              \cup MissingFieldResponses \cup NonNumericResponses

\* C14: whenever the classification call fails (network failure, error text, no
\* JSON object, unparsable JSON, no is_about_company field, a confidence that
\* is not a number), _classify_question_with_llm does not raise and returns
\* what the keyword heuristic returns for the question
C14_FailureFallsBackToHeuristic ==
    (cls.mode = "llm" /\ ClaimedFailure(cls.outcome)) =>
        /\ ~cls.raised
        /\ cls.result = _classify_with_heuristics(cls.question)

C14_Witness ==
    /\ cls.mode = "llm"
    /\ cls.outcome.kind = "ok"
    /\ cls.outcome.content \in NonNumericResponses
    /\ cls.result.category = "keyword_heuristic"

HasVocabularyTerm(question) ==
    \E i \in 1..Len(company_keywords) :
        Contains([j \in 1..Len(question) |-> LowerChar(question[j])], company_keywords[i])

\* C15: the keyword fallback returns for every question, without a call of the
\* model and without raising: relevant with confidence 0.7 when the lower-cased
\* question contains a vocabulary term, not relevant with confidence 0.6 when
\* it contains none
C15_HeuristicTotal ==
    cls.mode = "heuristic" =>
        /\ ~cls.raised
        /\ cls.llm_calls = 0
        /\ cls.result.is_about_company = HasVocabularyTerm(cls.question)
        /\ cls.result.confidence = IF HasVocabularyTerm(cls.question) THEN Conf07 ELSE Conf06

C15_Witness ==
    /\ cls.mode = "heuristic"
    /\ cls.question = <<"O", "F", "I", "S">>
    /\ cls.result.is_about_company
    /\ cls.result.confidence = Conf07

MentionsCompanyName(question) ==
    \E name \in company_names :
        Contains([j \in 1..Len(question) |-> LowerChar(question[j])], name)

\* C16: in the keyword fallback a question that mentions the company name is
\* classified relevant with confidence 0.9, category explicit_mention
C16_ExplicitMentionOverrides ==
    (cls.mode = "heuristic" /\ MentionsCompanyName(cls.question)) =>
        /\ cls.result.is_about_company
        /\ cls.result.category = "explicit_mention"
        /\ cls.result.confidence = Conf09

\* C20: every classification produced for a question (model verdict, keyword
\* fallback, forced routing) has a confidence in [0, 1]
C20_ConfidenceInUnitRange ==
    cls.mode # "none" =>
        /\ RLeq(Zero, cls.result.confidence)
        /\ RLeq(cls.result.confidence, One)

----------------------------------------------------------------------------
(***************************************************************************)
(* SpecAsk: one call of ask_question on a fresh memory, for every question,*)
(* every routing, every outcome of the two searches and every outcome of   *)
(* the generation call.  The disk works and the clock stands.              *)
(***************************************************************************)

\* the answer of ask_question when a company question finds no passage
CannotAnswer == <<"N", "a", " ", "o", "s", "n", "o", "v", "e", " ", "p", "r", "e", "d", "o", "s", "t", "a", "v", "l", "e", "n", "n", "o", "y", " ", "i", "n", "f", "o", "r", "m", "a", "c", "i", "i", " ", "n", "e", " ", "m", "o", "g", "u", " ", "o", "t", "v", "e", "t", "i", "t", " ", "n", "a", " ", "v", "o", "p", "r", "o", "s">>

not_found_phrases ==
    <<<<"n", "e", " ", "m", "o", "g", "u", " ", "o", "t", "v", "e", "t", "i", "t">>,
      <<"n", "e", "t", " ", "i", "n", "f", "o", "r", "m", "a", "c", "i", "i">>,
      <<"i", "n", "f", "o", "r", "m", "a", "c", "i", "i", " ", "n", "e", "t">>,
      <<"n", "e", " ", "m", "o", "g", "u", " ", "n", "a", "y", "t", "i">>,
      <<"n", "e", " ", "p", "r", "e", "d", "o", "s", "t", "a", "v", "l", "e", "n", "o">>,
      <<"n", "e", " ", "z", "n", "a", "y", "u">>,
      <<"n", "e", " ", "u", "d", "a", "l", "o", "s", " ", "n", "a", "y", "t", "i">>>>

\* answers of the model to the answer prompt
Answers ==
    {<<"O", "f", "i", "s", " ", "v", " ", "M", "o", "s", "k", "v", "e">>,
     <<"Y", "a", " ", "N", "e", " ", "Z", "n", "a", "y", "u">>,
     <<"N", "E", "T", " ", "I", "N", "F", "O", "R", "M", "A", "C", "I", "I", " ", "o", "b", " ", "e", "t", "o", "m">>,
     <<" ", "S", "o", "l", "n", "e", "c", "h", "n", "o", " ">>}

GenerationOutcomes == FailedCalls \cup {OkCall(a) : a \in Answers}

\* the classification outcomes tried in SpecAsk
AskClassificationOutcomes ==
    {[kind |-> "request_exception", content |-> <<>>], [kind |-> "type_error", content |-> <<>>],
     OkCall(<<"{", "iac=true;conf=0.5", "}">>), OkCall(<<"{", "iac=false;conf=0.5", "}">>),
     OkCall(Prose)}

AskQuestions == {<<"o", "f", "i", "s", " ", "N", "e", "o", "f", "l", "e", "x">>,
                 <<"p", "o", "g", "o", "d", "a">>}

\* the passages of the index, nearest first, and the distances they can have:
\* similarity 0.8, 0.3 and 0.1
AskDocs == <<<<"a">>, <<"b">>, <<"a", "b">>, <<"b", "a">>>>
AskDistances == {Rat(2, 5), Rat(7, 5), Rat(9, 5)}
AskHits ==
    {h \in SeqsUpTo(AskDistances, Len(AskDocs)) : \A i \in 1..(Len(h) - 1) : RLeq(h[i], h[i + 1])}
AskHitList(h) == [i \in 1..Len(h) |-> [doc |-> AskDocs[i], score |-> h[i]]]
AskScored == {<<>>, <<[doc |-> AskDocs[1], score |-> One]>>}
AskSession == "s1"
default_k == 5

\* chunks_with_scores[:3]
max_sources == 3

\* a threshold test that lets the threshold itself through
ScoreAtLeastThreshold(score) == RLeq(Rat(3, 10), score)

\* score > 0.3
ScoreAboveThreshold(score) == RLess(Rat(3, 10), score)

\* the loop over chunks_with_scores[:3]
RECURSIVE SelectSources(_)
SelectSources(chunks) ==
    IF chunks = <<>> THEN <<>>
    ELSE (IF ScoreAboveThreshold(Head(chunks).score)
          THEN <<[content_preview |-> Head(chunks).doc, score |-> Head(chunks).score]>>
          ELSE <<>>) \o SelectSources(Tail(chunks))

\* the loop over not_found_phrases
KnowsAnswer(answer) ==
    ~\E i \in 1..Len(not_found_phrases) : Contains(lower(answer), not_found_phrases[i])

\* a routing that asks the model whatever was found
AlwaysGenerates(is_about_company, chunks_with_scores) == TRUE

\* ask_question calls the model unless a company question found no passage
NeedsGeneration(is_about_company, chunks_with_scores) ==
    ~(is_about_company /\ chunks_with_scores = <<>>)

\* ChatMemory.add_message with a disk that works: the map and the file after it
MemoryAfterAdd(mem, sid, role, content, t, cap) ==
    LET c == _cleanup_old_sessions(mem.sessions, mem.disk, t, "ok")
        s2 == Appended(c.sessions, sid, role, content, t, cap)
    IN  [sessions |-> s2, disk |-> _save_sessions(s2, c.disk, "ok").disk,
         cut |-> OverCap(c.sessions, sid, cap), deleted |-> c.deleted]

NoRetrieval == [ran |-> FALSE, vok |-> TRUE, bok |-> TRUE]
NoClassification == [is_about_company |-> FALSE, category |-> "None", confidence |-> Zero]
NoAsk == [state |-> "idle", question |-> <<>>, classify_question |-> FALSE,
          routing |-> NoClassification, classification |-> NoClassification,
          retrieval |-> NoRetrieval, chunks_with_scores |-> <<>>,
          generation |-> NoCall, generation_calls |-> 0, classification_calls |-> 0,
          answer |-> <<>>, sources |-> <<>>, used_chunks |-> 0, total_chunks_found |-> 0,
          knows_answer |-> FALSE, history_length |-> 0, log |-> <<>>,
          seen_by_classifier |-> <<>>, seen_by_prompt |-> <<>>]

AskInit ==
    /\ MemIdle /\ ConcIdle /\ FpIdle /\ FuseIdle /\ IndexIdle
    /\ cls = <<>>
    /\ ask = NoAsk

AskFrame == UNCHANGED <<cls, concVars, fpVars, fuseVars, indexVars>>

\* the classification step of ask_question
Classified(question, classify_question, cls_outcome) ==
    IF classify_question
    THEN _classify_question_with_llm(question, cls_outcome)
    ELSE [raised |-> FALSE, llm_calls |-> 0, result |-> ForcedClassification]

\* the retrieval step of ask_question
Retrieved(is_about_company, vector_k, bm25_k, hits, scored, vok, bok) ==
    IF is_about_company
    THEN AskFuse(vector_search_with_score(hits, vector_k, vok), bm25_search(scored, bm25_k, bok))
    ELSE <<>>

\* the generation step of ask_question
Generated(generates, gen_outcome) ==
    IF generates THEN _call_llm(gen_outcome) ELSE [raised |-> FALSE, answer |-> CannotAnswer]

\* the sources step of ask_question
Sources(is_about_company, knows_answer, chunks_with_scores) ==
    IF is_about_company /\ knows_answer /\ chunks_with_scores # <<>>
    THEN SelectSources(Take(chunks_with_scores, max_sources))
    ELSE <<>>

\* QASystem.ask_question; each value of the method is bound once, in the order
\* of the statements
ask_question(question, session_id, vector_k, bm25_k, classify_question, cls_outcome, hits, scored, vok, bok, gen_outcome) ==
    /\ ask = NoAsk
    /\ \E m1 \in {MemoryAfterAdd([sessions |-> sessions, disk |-> disk], session_id, "user",
                                 question, now, max_history_length)},
          c \in {Classified(question, classify_question, cls_outcome)} :
       \E is_about_company \in {c.result.is_about_company} :
       \E chunks_with_scores \in {Retrieved(is_about_company, vector_k, bm25_k,
                                            hits, scored, vok, bok)} :
       \E generates \in {NeedsGeneration(is_about_company, chunks_with_scores)} :
       \E g \in {Generated(generates, gen_outcome)} :
       \E before \in {[NoAsk EXCEPT
                         !.question = question,
                         !.classify_question = classify_question,
                         !.routing = c.result,
                         !.retrieval = IF is_about_company
                                       THEN [ran |-> TRUE, vok |-> vok, bok |-> bok]
                                       ELSE NoRetrieval,
                         !.chunks_with_scores = chunks_with_scores,
                         !.generation = IF generates THEN gen_outcome ELSE NoCall,
                         !.generation_calls = IF generates THEN 1 ELSE 0,
                         !.classification_calls = c.llm_calls,
                         !.seen_by_classifier = IF classify_question
                                                THEN m1.sessions[session_id].history ELSE <<>>,
                         !.seen_by_prompt = IF generates
                                            THEN m1.sessions[session_id].history ELSE <<>>]},
          steps \in {<<"add_user", IF classify_question THEN "classify" ELSE "forced">>
                     \o (IF is_about_company THEN <<"retrieve">> ELSE <<>>)
                     \o (IF generates THEN <<"generate">> ELSE <<>>)} :
          IF g.raised
          THEN /\ ask' = [before EXCEPT !.state = "raised", !.log = steps]
               /\ sessions' = m1.sessions
               /\ disk' = m1.disk
               /\ ret' = RetFull("add_message", FALSE, m1.deleted, m1.cut)
          ELSE \E answer \in {g.answer} :
               \E m2 \in {MemoryAfterAdd(m1, session_id, "assistant", answer, now,
                                         max_history_length)},
                  knows_answer \in {KnowsAnswer(answer)} :
               \E sources \in {Sources(is_about_company, knows_answer, chunks_with_scores)} :
                  /\ ask' = [before EXCEPT
                               !.state = "returned",
                               !.classification = IF classify_question THEN c.result
                                                  ELSE NoClassification,
                               !.answer = answer,
                               !.sources = sources,
                               !.used_chunks = Len(sources),
                               !.total_chunks_found = Len(chunks_with_scores),
                               !.knows_answer = knows_answer,
                               !.history_length =
                                   Len(HistoryView(m2.sessions[session_id].history, 0)),
                               !.log = steps \o <<"add_assistant", "get_history">>]
                  /\ sessions' = m2.sessions
                  /\ disk' = m2.disk
                  /\ ret' = RetFull("add_message", FALSE, m2.deleted, m2.cut)
    /\ UNCHANGED <<now, wfail, max_history_length>>
    /\ AskFrame

\* one request per behaviour
AskNext ==
    /\ ask = NoAsk
    /\ \E question \in AskQuestions, classify_question \in BOOLEAN :
       \E cls_outcome \in IF classify_question THEN AskClassificationOutcomes ELSE {NoCall} :
       \E h \in AskHits, scored \in AskScored, vok \in BOOLEAN, bok \in BOOLEAN :
       \E gen_outcome \in GenerationOutcomes :
           ask_question(question, AskSession, default_k, default_k, classify_question,
                        cls_outcome, AskHitList(h), scored, vok, bok, gen_outcome)

SpecAsk == AskInit /\ [][AskNext]_vars

\* C17: a question routed to the company with an empty fused retrieval (also
\* when both searches failed) gets the fixed cannot-answer text, without a
\* generation call and without sources
C17_EmptyRetrievalSkipsGeneration ==
    (ask.state # "idle" /\ ask.routing.is_about_company /\ ask.chunks_with_scores = <<>>) =>
        /\ ask.state = "returned"
        /\ ask.answer = CannotAnswer
        /\ ask.generation_calls = 0
        /\ ~("generate" \in {ask.log[i] : i \in 1..Len(ask.log)})
        /\ ask.sources = <<>>

C17_Witness ==
    /\ ask.state = "returned"
    /\ ask.routing.is_about_company
    /\ ask.retrieval.ran /\ ~ask.retrieval.vok /\ ~ask.retrieval.bok
    /\ ask.answer = CannotAnswer
    /\ ask.generation_calls = 0

SaysNotKnowing(answer) ==
    \E i \in 1..Len(not_found_phrases) :
        Contains([j \in 1..Len(answer) |-> LowerChar(answer[j])], not_found_phrases[i])

\* C18: in every result of ask, sources is empty when the question was routed
\* general or the answer contains a not-knowing phrase in any letter case;
\* otherwise it holds at most 3 passages of the fused list, each with a fused
\* score strictly above 0.3; used_chunks is the number of sources
C18_SourcesRule ==
    ask.state = "returned" =>
        /\ ask.used_chunks = Len(ask.sources)
        /\ (~ask.routing.is_about_company \/ SaysNotKnowing(ask.answer)) => ask.sources = <<>>
        /\ Len(ask.sources) <= 3
        /\ \A i \in 1..Len(ask.sources) :
              /\ \E j \in 1..Len(ask.chunks_with_scores) :
                    /\ ask.chunks_with_scores[j].doc = ask.sources[i].content_preview
                    /\ ask.chunks_with_scores[j].score = ask.sources[i].score
              /\ ask.sources[i].score.n * 10 > 3 * ask.sources[i].score.d

C18_Witness ==
    /\ ask.state = "returned"
    /\ Len(ask.chunks_with_scores) = 4
    /\ \E j \in 1..3 : ask.chunks_with_scores[j].score = Rat(3, 10)
    /\ Len(ask.sources) = 2

\* C19: when the generation call of ask fails (timeout, transport error, HTTP
\* error status, no API key, a body that is malformed or of another shape), ask
\* does not raise: it returns an error text as the answer, after one call
C19_GenerationFailureBecomesAnswer ==
    (ask.state # "idle" /\ ask.generation \in FailedCalls) =>
        /\ ask.state = "returned"
        /\ ask.answer \in {ErrNoKey, ErrRequest, ErrParse}
        /\ ask.generation_calls = 1

----------------------------------------------------------------------------
(* Further properties of the session memory *)

\* the last m elements of seq, in their order
LastOf(seq, m) == [i \in 1..m |-> seq[Len(seq) - m + i]]

\* C21: when add_message makes the history of its session longer than
\* max_history_length, the history afterwards is the last
\* min(max_history_length, 4) messages of the appended history, in their order;
\* otherwise it is the previous history with the new message at the end; the
\* histories of the other sessions do not change
C21_CutKeepsLastMessages ==
    [][\A sid \in SessionIds, role \in Roles, content \in Contents :
          IsAddMessage(sid, role, content) =>
              LET appended == Append(Hist(sessions, sid), Message(role, content, now))
                  kept == IF max_history_length < 4 THEN max_history_length ELSE 4
              IN  /\ sid \in DOMAIN sessions'
                  /\ sessions'[sid].history =
                        (IF Len(appended) > max_history_length
                         THEN LastOf(appended, kept) ELSE appended)
                  /\ \A s \in DOMAIN sessions \ {sid} :
                        s \in DOMAIN sessions' /\ sessions'[s].history = sessions[s].history
      ]_vars

\* an add_message went over a cap below 4 and left as many messages as the cap,
\* of both roles
C21_Witness ==
    /\ ret.op = "add_message"
    /\ ret.cut
    /\ max_history_length < KeepPairs
    /\ \E s \in DOMAIN sessions :
          /\ Len(sessions[s].history) = max_history_length
          /\ {sessions[s].history[i].role : i \in 1..Len(sessions[s].history)} = Roles

\* the snapshot holds no entry of session s that a load at time t keeps
NotLoadable(s, t) ==
    \/ disk.kind # "json"
    \/ s \notin DOMAIN disk.data
    \/ t - fromisoformat(disk.data[s].last_access) >= ttl_hours

\* C22: a session id enters the session map only through add_message for that
\* id, or through the load of the snapshot at start-up; get_history,
\* get_session_info and clear_history never create a session; an id leaves
\* the map only when it has passed the TTL (at start-up: when the snapshot holds
\* no entry of it that is within the TTL); clear_history keeps the session
C22_SessionLifecycle ==
    [][/\ \A s \in SessionIds :
             /\ (s \notin DOMAIN sessions /\ s \in DOMAIN sessions') =>
                    \/ \E role \in SpecRoles, content \in Contents : IsAddMessage(s, role, content)
                    \/ Restart /\ disk.kind = "json" /\ s \in DOMAIN disk.data
             /\ (s \in DOMAIN sessions /\ s \notin DOMAIN sessions') =>
                    \/ OlderThanTTL(sessions, s, now) /\ ret'.op = "add_message"
                    \/ Restart /\ NotLoadable(s, now)
       /\ (GetHistory \/ GetSessionInfo \/ ClearHistory) => DOMAIN sessions' = DOMAIN sessions
      ]_vars

\* clear_history has emptied a session that stays in the map, while another id
\* is unknown
C22_Witness ==
    /\ ret.op = "clear_history"
    /\ \E s \in DOMAIN sessions : sessions[s].history = <<>>
    /\ SessionIds \ DOMAIN sessions # {}

----------------------------------------------------------------------------
(* Further properties of the retrieval *)

\* the fingerprints of the passages in the results of the two searches
InputFingerprints ==
    {FingerprintOf(fused.vector_results[i].doc) : i \in 1..Len(fused.vector_results)}
    \cup {FingerprintOf(fused.bm25_results[i].doc) : i \in 1..Len(fused.bm25_results)}

PositionIn(results, h) == CHOOSE i \in 1..Len(results) : FingerprintOf(results[i].doc) = h

\* the place of the passage in the input order: the dense results in their
\* order, then the passages that only the sparse search found, in its order
InputRank(h) ==
    IF Found(fused.vector_results, h) THEN PositionIn(fused.vector_results, h)
    ELSE Len(fused.vector_results) + PositionIn(fused.bm25_results, h)

FusedScore(h) == RAdd(DenseContribution(h), SparseContribution(h))

\* the passage with fingerprint g goes before the one with fingerprint h
RanksBefore(g, h) ==
    \/ RLess(FusedScore(h), FusedScore(g))
    \/ FusedScore(h) = FusedScore(g) /\ InputRank(g) < InputRank(h)

\* C23: hybrid_search returns the fused entries in descending order of the
\* fused score, entries of equal score in input order (dense results first, in
\* dense order, then sparse-only results in sparse order), cut to the first k
C23_SortedStableTopK ==
    fused.path = "hybrid_search" =>
        LET r == fused.results
            fpOf(i) == FingerprintOf(r[i].doc)
        IN  /\ Len(r) = IF Cardinality(InputFingerprints) < fused.k
                        THEN Cardinality(InputFingerprints) ELSE fused.k
            /\ \A i, j \in 1..Len(r) : i < j => RanksBefore(fpOf(i), fpOf(j))
            /\ \A h \in InputFingerprints :
                  ~Found(r, h) => \A i \in 1..Len(r) : RanksBefore(fpOf(i), h)

\* hybrid_search returned a dense passage before a sparse-only passage of the
\* same fused score
C23_Witness ==
    /\ fused.path = "hybrid_search"
    /\ Len(fused.results) = 2
    /\ fused.results[1].score = fused.results[2].score
    /\ Found(fused.vector_results, FingerprintOf(fused.results[1].doc))
    /\ ~Found(fused.vector_results, FingerprintOf(fused.results[2].doc))

\* max(0, 1 - d/2)
ClampedSimilarity(d) ==
    IF RLess(RSub(One, RDiv(d, Two)), Zero) THEN Zero ELSE RSub(One, RDiv(d, Two))

\* the sparse search found no passage with the fingerprint of doc
DenseOnly(doc) ==
    \A j \in 1..Len(fused.bm25_results) :
        /\ FingerprintOf(fused.bm25_results[j].doc) # FingerprintOf(doc)
        /\ _get_content_hash(fused.bm25_results[j].doc) # _get_content_hash(doc)

AskSimilarityClamped ==
    fused.path = "ask" =>
        \A i \in 1..Len(fused.results), j \in 1..Len(fused.vector_results) :
            (fused.vector_results[j].doc = fused.results[i].doc /\ DenseOnly(fused.results[i].doc)) =>
                fused.results[i].score = ClampedSimilarity(fused.vector_results[j].score)

----------------------------------------------------------------------------
(***************************************************************************)
(* SpecSearch: one call of one of the two searches.  The index ranks a run *)
(* of passages of one fingerprint before up to two more passages, so that  *)
(* the over-fetch of min(k*5, 100) candidates runs out before k unique     *)
(* passages are found; the sparse corpus holds one passage per fingerprint.*)
(***************************************************************************)
SearchDocs == DocTexts \cup {<<"b", "a">>}
SearchDepths == {1, 2, 21}     \* the values of k
RunLengths == (0..11) \cup {99, 100, 101}

\* n hits of the fingerprint of "a", under its two spellings in turn
RunOfRepeats(n) ==
    [i \in 1..n |-> [doc |-> IF i % 2 = 1 THEN <<"a">> ELSE <<"A", " ">>, score |-> Zero]]

DenseRankings ==
    {RunOfRepeats(n) \o tail :
        n \in RunLengths,
        tail \in {[i \in 1..Len(t) |-> [doc |-> t[i], score |-> Two]] :
                     t \in SeqsUpTo({<<"b">>, <<"b", "a">>}, 2)}}

SparseCorpora ==
    {c \in SeqsUpTo({[doc |-> t, score |-> x] : t \in SearchDocs, x \in BM25Vals}, 3) :
        OnePerFingerprint(c)}

NoSearch == [path |-> "none", k |-> 0, ok |-> TRUE, results |-> <<>>]

SearchInit ==
    /\ \/ raw \in DenseRankings /\ bm = <<>>
       \/ raw = <<>> /\ bm \in SparseCorpora
    /\ fused = NoSearch
    /\ MemIdle /\ ConcIdle /\ FpIdle /\ IndexIdle /\ QaIdle

SearchFrame == UNCHANGED <<raw, bm, memVars, concVars, fpVars, indexVars, qaVars>>

\* a call of vector_search_with_score(query, k)
VectorSearch(k, ok) ==
    /\ fused = NoSearch
    /\ fused' = [path |-> "vector_search_with_score", k |-> k, ok |-> ok,
                 results |-> vector_search_with_score(raw, k, ok)]
    /\ SearchFrame

\* a call of bm25_search(query, k)
BM25Search(k, ok) ==
    /\ fused = NoSearch
    /\ fused' = [path |-> "bm25_search", k |-> k, ok |-> ok,
                 results |-> bm25_search(bm, k, ok)]
    /\ SearchFrame

SearchNext ==
    \/ \E k \in SearchDepths, ok \in BOOLEAN : VectorSearch(k, ok)
    \/ \E k \in SearchDepths, ok \in BOOLEAN : BM25Search(k, ok)

SpecSearch == SearchInit /\ [][SearchNext]_vars

\* the places of the list whose fingerprint no earlier place has
FirstOccurrences(c) ==
    {i \in 1..Len(c) :
        \A j \in 1..(i - 1) : FingerprintOf(c[j].doc) # FingerprintOf(c[i].doc)}

\* the first k fingerprint-unique entries of the list, in its order
FirstUnique(c, k) ==
    LET idx == FirstOccurrences(c)
        n == IF Cardinality(idx) < k THEN Cardinality(idx) ELSE k
    IN  [m \in 1..n |-> c[CHOOSE i \in idx : Cardinality({j \in idx : j <= i}) = m]]

\* the corpus in descending order of score, passages of equal score in the
\* order of the corpus
ByScore(c) ==
    LET place(i) == 1 + Cardinality({j \in 1..Len(c) : RLess(c[i].score, c[j].score)})
                      + Cardinality({j \in 1..(i - 1) : c[j].score = c[i].score})
    IN  [m \in 1..Len(c) |-> c[CHOOSE i \in 1..Len(c) : place(i) = m]]

\* the candidates that the index hands out for k
Overfetched(hits, k) ==
    SubSeq(hits, 1, IF (IF k * 5 < 100 THEN k * 5 ELSE 100) < Len(hits)
                    THEN (IF k * 5 < 100 THEN k * 5 ELSE 100) ELSE Len(hits))

C25_CapWitness ==
    /\ fused.path = "vector_search_with_score"
    /\ fused.ok
    /\ fused.k = 21
    /\ Len(raw) > 100
    /\ Len(fused.results) = 1
    /\ Cardinality(FirstOccurrences(raw)) >= 2

----------------------------------------------------------------------------
(* Further properties of the classification *)

\* the places of the response where a well-formed JSON object starts, and the
\* member list of the object there ("" for the empty object)
ObjectStarts(response) ==
    {i \in 1..Len(response) :
        /\ response[i] = "{"
        /\ \/ i + 1 <= Len(response) /\ response[i + 1] = "}"
           \/ /\ i + 2 <= Len(response)
              /\ response[i + 1] \in DOMAIN JsonMembers
              /\ response[i + 2] = "}"}

FirstObjectStart(response) ==
    CHOOSE i \in ObjectStarts(response) : \A j \in ObjectStarts(response) : i <= j

\* the first well-formed object of the response has the field is_about_company
\* and a confidence that is a number or left out
FirstObjectIsVerdict(response) ==
    /\ ObjectStarts(response) # {}
    /\ response[FirstObjectStart(response) + 1] \in DOMAIN JsonMembers
    /\ LET members == JsonMembers[response[FirstObjectStart(response) + 1]]
       IN  /\ members.is_about_company # "absent"
           /\ members.confidence \in {"absent", "0.5", "1.5", "-0.5"}

\* C26: the classifier takes the first well-formed JSON object of the response,
\* also when text or further objects follow it; when the object has the field
\* is_about_company the verdict is that field's value, with confidence 0.8 when
\* the object gives none
C26_FirstObjectIsParsed ==
    (cls.mode = "llm" /\ cls.outcome.kind = "ok" /\ FirstObjectIsVerdict(strip(cls.outcome.content))) =>
        LET response == strip(cls.outcome.content)
            members == JsonMembers[response[FirstObjectStart(response) + 1]]
        IN  /\ cls.result.category = "llm_classification"
            /\ cls.result.is_about_company = (members.is_about_company = "true")
            /\ members.confidence = "absent" => cls.result.confidence = Rat(8, 10)

\* the same statement for the responses that hold one object
SingleObjectIsParsed ==
    (/\ cls.mode = "llm" /\ cls.outcome.kind = "ok"
     /\ FirstObjectIsVerdict(strip(cls.outcome.content))
     /\ Cardinality({i \in 1..Len(cls.outcome.content) : cls.outcome.content[i] = "}"}) = 1) =>
        LET response == strip(cls.outcome.content)
            members == JsonMembers[response[FirstObjectStart(response) + 1]]
        IN  /\ cls.result.category = "llm_classification"
            /\ cls.result.is_about_company = (members.is_about_company = "true")
            /\ members.confidence = "absent" => cls.result.confidence = Rat(8, 10)

----------------------------------------------------------------------------
(* Further properties of ask_question *)

\* the place of the step in the log of the call, 0 when it was not taken
StepAt(step) ==
    IF \E i \in 1..Len(ask.log) : ask.log[i] = step
    THEN CHOOSE i \in 1..Len(ask.log) : ask.log[i] = step
    ELSE 0

\* C27: within one call of ask_question the memory records the two turns only
\* after the classification, the retrieval and the generation: the question is
\* classified and the prompt is built on a history without the message of the
\* current turn
C27_TurnsRecordedLast ==
    ask.state = "returned" =>
        /\ StepAt("add_user") > StepAt("classify")
        /\ StepAt("add_user") > StepAt("retrieve")
        /\ StepAt("add_user") > StepAt("generate")
        /\ StepAt("add_assistant") > StepAt("add_user")
        /\ \A i \in 1..Len(ask.seen_by_classifier) :
              ask.seen_by_classifier[i].content # ask.question
        /\ \A i \in 1..Len(ask.seen_by_prompt) :
              ask.seen_by_prompt[i].content # ask.question

\* the part of the order that the code keeps: classification, then retrieval,
\* then generation, then the answer of the assistant
LaterStepsInOrder ==
    ask.state = "returned" =>
        /\ StepAt("retrieve") # 0 => StepAt("retrieve") > StepAt("classify")
        /\ StepAt("generate") # 0 => StepAt("generate") > StepAt("retrieve")
        /\ StepAt("add_assistant") > StepAt("generate")

----------------------------------------------------------------------------
(* Reads, clears and loads of the session memory *)

\* C28: get_history on a session that is older than the TTL does not refresh
\* its last_access (and hands out none of its messages), so the next
\* add_message still purges the session
C28_ReadsDoNotRevive ==
    [][\A sid \in SessionIds, m \in MaxMessagesArgs :
          (sid \in DOMAIN sessions /\ OlderThanTTL(sessions, sid, now) /\ get_history(sid, m)) =>
              /\ sessions'[sid].last_access = sessions[sid].last_access
              /\ HistoryView(sessions[sid].history, m) = <<>>
      ]_vars

\* C29: clear_history(s) returns True exactly when the session s exists; then
\* the history of s becomes empty, s stays in the map with its last_access and
\* every other session stays as it is; when s does not exist it returns False
\* and changes neither the map nor the snapshot
C29_ClearHistoryFrame ==
    [][\A sid \in SessionIds, o \in WriteOutcomes :
          clear_history(sid, o) =>
              IF sid \in DOMAIN sessions
              THEN /\ ret'.value = "True"
                   /\ DOMAIN sessions' = DOMAIN sessions
                   /\ sessions'[sid].history = <<>>
                   /\ sessions'[sid].last_access = sessions[sid].last_access
                   /\ \A s \in DOMAIN sessions \ {sid} : sessions'[s] = sessions[s]
              ELSE /\ ret'.value = "False"
                   /\ sessions' = sessions
                   /\ disk' = disk
      ]_vars

\* clear_history returned True for a session that was last accessed before the
\* present hour and holds no message now, next to a session with messages
C29_Witness ==
    /\ ret.op = "clear_history"
    /\ ret.value = "True"
    /\ \E s, u \in DOMAIN sessions :
          /\ sessions[s].history = <<>>
          /\ sessions[s].last_access < now
          /\ sessions[u].history # <<>>

\* clear_history returned False
C29_UnknownWitness ==
    /\ ret.op = "clear_history"
    /\ ret.value = "False"
    /\ disk.kind = "json"

\* C30: at every instant and for every session of the map, a load of the
\* session's saved entry drops it exactly when the purge deletes the session:
\* the two agree at every age, the age equal to the TTL included
C30_LoadAndPurgeAgree ==
    \A s \in DOMAIN sessions :
        (s \in DOMAIN _load_sessions(JsonFile(Serialize(sessions)), now))
            <=> (s \in DOMAIN _cleanup_old_sessions(sessions, disk, now, "ok").sessions)

\* the same statement away from the age equal to the TTL
LoadAndPurgeAgreeOffTTL ==
    \A s \in DOMAIN sessions :
        now - sessions[s].last_access # ttl_hours =>
            ((s \in DOMAIN _load_sessions(JsonFile(Serialize(sessions)), now))
                <=> (s \in DOMAIN _cleanup_old_sessions(sessions, disk, now, "ok").sessions))

====
